---- MODULE Spec2Model ----
(***************************************************************************)
(* Model of the OneNote utilities: the Inclusion Filter (shouldSkipPage    *)
(* and its bulk-driver halves), the paginated listings and searches, the   *)
(* single-record content retrievers and the bulk export driver.            *)
(*                                                                         *)
(* Strings whose characters matter (titles, keywords) are sequences of     *)
(* one-character strings.  Timestamps are the fields of an ISO-8601 UTC    *)
(* string; Date values are (days since 1970-01-01, ms of the day) pairs,   *)
(* compared as JavaScript compares getTime().                              *)
(***************************************************************************)
EXTENDS Integers, Sequences, FiniteSets, TLC

VARIABLES
    fpage,      \* Inclusion Filter: the page record handed to the predicates
    fres,       \* Inclusion Filter: what each predicate returned for fpage
    psite,      \* listing/search: the entry point that runs
    pparams,    \* listing/search: its arguments
    chain,      \* listing/search: the server's pages, page k linking to page k+1
    ppc,        \* listing/search: the await the handler is suspended at
    response,   \* listing/search: the most recent response
    allValues,  \* listing/search: the accumulated records (allValues, allPages, pages)
    requests,   \* listing/search: every request issued, in order
    received,   \* listing/search: the pages the server returned, in order
    pfailed,    \* listing/search: position in requests of the request that failed, 0 if none
    pout,       \* listing/search: how the operation ended and what it returned
    collected,  \* listing: the records the earlier calls of a manual pagination returned
    manifest,   \* bulk driver: pages, the entries parsed from the page list
    fastMode,   \* bulk driver: --fast
    files,      \* bulk driver: the file names in OUTPUT_DIR
    pagesToDownload, \* bulk driver: the manifest without the titles skipped
    skippedByTitle,  \* bulk driver: how many entries the title filter removed
    cur,        \* bulk driver: i + 1, the position of the entry being downloaded
    retryCount, \* bulk driver: options.retryCount of the running downloadPage
    bpc,        \* bulk driver: the await the run is suspended at
    fetched,    \* bulk driver: page, the metadata fetched for the entry, if any
    filename,   \* bulk driver: the output file name computed for the entry
    result,     \* bulk driver: what downloadPage returned
    consecutiveFailures, totalSuccess, totalSkipped, totalFailed,
    failedPages,     \* bulk driver: { title, pageId, error } per failed entry
    failedLog,  \* bulk driver: the lines of FAILED_DOWNLOADS_FILE, if written
    outcomes,   \* bulk driver: the outcome of every entry attempted so far
    nMeta,      \* bulk driver: metadata requests issued for the current entry
    nContent,   \* bulk driver: content requests issued for the current entry
    okLeft,     \* server: metadata requests it will still answer (-1: any number)
    faults,     \* server and disk: the ways a request or a write fails in this run
    fresh,      \* disk: the files of OUTPUT_DIR written within the last 30 days
    attempted,  \* bulk driver: the entries main called downloadPage for, in order
    asked,      \* bulk driver: the entries a request was issued for
    written,    \* bulk driver: every write of an output file, in order
    caught,     \* bulk driver: the errors downloadPage caught for the entry
    inflight,   \* bulk driver: the requests issued and not yet settled
    timer,      \* bulk driver: the abort timer of the content request is armed
    tokenFile,  \* credentials: the content of .access-token.txt, if the file exists
    envToken,   \* credentials: process.env.GRAPH_ACCESS_TOKEN, if set
    accessToken,\* credentials: the accessToken variable of the running process
    graphClient,\* credentials: whether the process has constructed its Graph client
    csite,      \* entry point: the script that runs
    cpc,        \* entry point: the await the script is suspended at
    creqs,      \* entry point: every request issued, with its bearer token
    cpage,      \* entry point: the metadata a single-page script fetched, if any
    cout,       \* entry point: what was reported and the exit status
    calls,      \* MCP server: the tool calls, each with the await it is suspended at
    outstanding,\* MCP server: the requests issued and not yet settled
    reply,      \* MCP server: how the tool call that ended last ended
    bearer,     \* MCP server: the bearer token of the request issued last, if any
    saved       \* MCP server: the token of the last save or exchange that succeeded, if any

filterVars == <<fpage, fres>>
pagingVars == <<psite, pparams, chain, ppc, response, allValues,
                requests, received, pfailed, pout, collected>>
bulkVars == <<manifest, fastMode, files, pagesToDownload, skippedByTitle, cur,
              retryCount, bpc, fetched, filename, result, consecutiveFailures, totalSuccess,
              totalSkipped, totalFailed, failedPages, failedLog, outcomes,
              nMeta, nContent, okLeft, faults, fresh, attempted, asked, written, caught,
              inflight, timer>>
credVars == <<tokenFile, envToken, accessToken, graphClient, csite, cpc, creqs,
              cpage, cout>>
mcpVars == <<calls, outstanding, reply, bearer, saved>>
vars == <<filterVars, pagingVars, bulkVars, credVars, mcpVars>>

-----------------------------------------------------------------------------
(* Bounds *)

MaxTitleFrags == 2
MaxChain == 3
MaxPageLen == 2
MaxManifest == 3
MaxLongManifest == 12
MaxOk == 1
MaxPad == 1
MaxCalls == 2

-----------------------------------------------------------------------------
(* Strings *)

Upper == <<"A","B","C","D","E","F","G","H","I","J","K","L","M",
           "N","O","P","Q","R","S","T","U","V","W","X","Y","Z">>
Lower == <<"a","b","c","d","e","f","g","h","i","j","k","l","m",
           "n","o","p","q","r","s","t","u","v","w","x","y","z">>

LowerChar(c) ==
    IF \E i \in 1..Len(Upper) : Upper[i] = c
    THEN Lower[CHOOSE i \in 1..Len(Upper) : Upper[i] = c]
    ELSE c

\* String.prototype.toLowerCase
toLowerCase(s) == [i \in 1..Len(s) |-> LowerChar(s[i])]

\* String.prototype.includes
includes(s, k) ==
    \E i \in 1..(Len(s) - Len(k) + 1) : SubSeq(s, i, i + Len(k) - 1) = k

kwPrivate == <<"p","r","i","v","a","t","e">>
kwOld == <<"(","o","l","d",")">>
Keywords == {kwPrivate, kwOld}

\* page.title of a record that carries no title
NoTitle == <<"undefined">>

TitleFrags ==
    { <<"P","r","i">>, <<"v","a","t","e">>, <<"P","R","I","V","A","T","E">>,
      <<"p","r","i","v","a","t","e">>, <<"(","o","l","d",")">>,
      <<"(","O","L","D",")">>, <<"(","O","l">>, <<"d",")">>,
      <<"o","l","d">>, <<" ">>, <<"N","o","t","e","s">> }

RECURSIVE TitlesUpTo(_)
TitlesUpTo(n) ==
    IF n = 0 THEN { <<>> }
    ELSE TitlesUpTo(n - 1) \cup { t \o f : t \in TitlesUpTo(n - 1), f \in TitleFrags }

Titles == TitlesUpTo(MaxTitleFrags)

-----------------------------------------------------------------------------
(* Dates *)

\* lastModifiedDateTime of a record that carries none
NoDate == [y |-> 0, m |-> 0, d |-> 0, ms |-> 0]

DaysInMonth(y, m) ==
    IF m = 2 THEN (IF y % 4 = 0 /\ (y % 100 # 0 \/ y % 400 = 0) THEN 29 ELSE 28)
    ELSE IF m \in {4, 6, 9, 11} THEN 30 ELSE 31

Timestamps ==
    { [y |-> y, m |-> m, d |-> d, ms |-> ms] :
        y \in {2021, 2022}, m \in {1, 6, 12}, d \in {1, 30, 31},
        ms \in {0, 86399999} } \
    { t \in [y : {2021, 2022}, m : {1, 6, 12}, d : {1, 30, 31}, ms : {0, 86399999}] :
        t.d > DaysInMonth(t.y, t.m) }

\* days from 1970-01-01 to the civil date y-m-d (proleptic Gregorian)
DaysFromCivil(y, m, d) ==
    LET yy  == IF m <= 2 THEN y - 1 ELSE y
        era == yy \div 400
        yoe == yy - era * 400
        mp  == IF m > 2 THEN m - 3 ELSE m + 9
        doy == (153 * mp + 2) \div 5 + d - 1
        doe == yoe * 365 + yoe \div 4 - yoe \div 100 + doy
    IN  era * 146097 + doe - 719468

\* new Date(isoString): the instant, as <<days, ms of day>>
NewDate(ts) == <<DaysFromCivil(ts.y, ts.m, ts.d), ts.ms>>

\* a < b on Date values (comparison of getTime())
DateLess(a, b) == a[1] < b[1] \/ (a[1] = b[1] /\ a[2] < b[2])

\* new Date('2022-01-01'): a date-only ISO string is UTC midnight
cutoffDate == NewDate([y |-> 2022, m |-> 1, d |-> 1, ms |-> 0])

-----------------------------------------------------------------------------
(* Inclusion Filter *)

PageRecords == [title : Titles \cup {NoTitle}, lastModifiedDateTime : Timestamps \cup {NoDate}]

\* (page.title || '')
TitleOrEmpty(page) == IF page.title = NoTitle THEN <<>> ELSE page.title

\* shouldSkipPage comparing the title as written (no toLowerCase)
shouldSkipPage_CaseSensitive(page) ==
    LET title == TitleOrEmpty(page) IN
    IF includes(title, kwPrivate) \/ includes(title, kwOld)
    THEN [skip |-> TRUE,
          reason |-> [text |-> "Title contains excluded keyword", args |-> <<page.title>>]]
    ELSE IF page.lastModifiedDateTime # NoDate
            /\ DateLess(NewDate(page.lastModifiedDateTime), cutoffDate)
    THEN [skip |-> TRUE,
          reason |-> [text |-> "Last modified date is older than 2022/1/1",
                      args |-> <<page.lastModifiedDateTime>>]]
    ELSE [skip |-> FALSE]

\* onenote-mcp.mjs shouldSkipPage: { skip, reason }; a reason is the wording
\* of its template literal and the values interpolated into it
shouldSkipPage(page) ==
    LET title == toLowerCase(TitleOrEmpty(page)) IN
    IF includes(title, kwPrivate) \/ includes(title, kwOld)
    THEN [skip |-> TRUE,
          reason |-> [text |-> "Title contains excluded keyword", args |-> <<page.title>>]]
    ELSE IF page.lastModifiedDateTime # NoDate
            /\ DateLess(NewDate(page.lastModifiedDateTime), cutoffDate)
    THEN [skip |-> TRUE,
          reason |-> [text |-> "Last modified date is older than 2022/1/1",
                      args |-> <<page.lastModifiedDateTime>>]]
    ELSE [skip |-> FALSE]

\* get-page-content.js / get-page.js shouldSkipPage: a boolean (the reason is logged)
shouldSkipPageCli(page) ==
    LET title == toLowerCase(TitleOrEmpty(page)) IN
    IF includes(title, kwPrivate) \/ includes(title, kwOld)
    THEN TRUE
    ELSE IF page.lastModifiedDateTime # NoDate
            /\ DateLess(NewDate(page.lastModifiedDateTime), cutoffDate)
    THEN TRUE
    ELSE FALSE

\* shouldSkipPageByTitle comparing the title as written (no toLowerCase)
shouldSkipPageByTitle_CaseSensitive(title) ==
    includes(title, kwOld) \/ includes(title, kwPrivate)

\* download-all-pages.js shouldSkipPageByTitle
shouldSkipPageByTitle(title) ==
    LET lowerTitle == toLowerCase(title) IN
    includes(lowerTitle, kwOld) \/ includes(lowerTitle, kwPrivate)

\* shouldSkipByDate with the cutoff instant itself excluded (<= for <)
shouldSkipByDate_Inclusive(page) ==
    IF page.lastModifiedDateTime # NoDate
    THEN ~ DateLess(cutoffDate, NewDate(page.lastModifiedDateTime))
    ELSE FALSE

\* download-all-pages.js shouldSkipByDate
shouldSkipByDate(page) ==
    IF page.lastModifiedDateTime # NoDate
    THEN DateLess(NewDate(page.lastModifiedDateTime), cutoffDate)
    ELSE FALSE

\* fpage and fres hold at most one value: <<>> until it exists
FilterIdle == fpage = <<>> /\ fres = <<>>

FilterInit == fpage \in { <<p>> : p \in PageRecords } /\ fres = <<>>

\* the predicates applied to one fetched record
ApplyFilter ==
    /\ fpage # <<>>
    /\ fres = <<>>
    /\ fres' = << [mcp     |-> shouldSkipPage(fpage[1]),
                   cli     |-> shouldSkipPageCli(fpage[1]),
                   byTitle |-> shouldSkipPageByTitle(TitleOrEmpty(fpage[1])),
                   byDate  |-> shouldSkipByDate(fpage[1])] >>
    /\ UNCHANGED fpage
    /\ UNCHANGED <<pagingVars, bulkVars, credVars, mcpVars>>


-----------------------------------------------------------------------------
(* Paginated listings and searches *)

RECURSIVE SeqsUpTo(_, _)
\* the sequences over S of length at most n
SeqsUpTo(S, n) ==
    IF n = 0 THEN { <<>> }
    ELSE SeqsUpTo(S, n - 1) \cup { Append(q, x) : q \in SeqsUpTo(S, n - 1), x \in S }

\* page records as the collection endpoint returns them
Recs == { [id |-> 1, title |-> <<"a">>], [id |-> 2, title |-> <<"A","b">>] }

Chains == SeqsUpTo(SeqsUpTo(Recs, MaxPageLen), MaxChain) \ { <<>> }

\* the link to page k; 0 stands for an absent '@odata.nextLink'
NoLink == 0

\* the server's answer to a request for page k of chain c
ServerPage(c, k) ==
    [value |-> c[k], nextLink |-> IF k < Len(c) THEN k + 1 ELSE NoLink]

NoResponse == [value |-> <<>>, nextLink |-> NoLink]

\* white space as trim and JSON.parse see it
IsWs(c) == c \in {" ", "\n", "\t", "\r"}

\* String.prototype.trim
RECURSIVE trim(_)
trim(s) ==
    IF s = <<>> THEN s
    ELSE IF IsWs(Head(s)) THEN trim(Tail(s))
    ELSE IF IsWs(s[Len(s)]) THEN trim(SubSeq(s, 1, Len(s) - 1))
    ELSE s

\* searchTerm arguments; <<>> stands for an absent one
SearchTerms == { <<>>, <<" ">>, <<"B">>, <<"a">> }

Sites == {"mcpListPages", "cliListPages", "mcpSearchPages", "cliSearchPages"}

\* requests: the pages collection (or a continuation link) by page number,
\* and the section lookups that precede a listing
PagesRequest(k) == [kind |-> "pages", page |-> k]
LookupRequest == [kind |-> "lookup", page |-> 0]

Pending == [status |-> "pending", value |-> <<>>, nextLink |-> NoLink]
Returned(value, link) == [status |-> "returned", value |-> value, nextLink |-> link]
\* an MCP tool handler's catch rethrows: the tool call fails
Thrown == [status |-> "thrown", value |-> <<>>, nextLink |-> NoLink]
\* search-pages.js: console.error and process.exit(1)
Exit1 == [status |-> "exit1", value |-> <<>>, nextLink |-> NoLink]
\* list-pages.js outer catch: console.error, nothing is printed
Logged == [status |-> "logged", value |-> <<>>, nextLink |-> NoLink]

PagingIdle ==
    /\ psite = "none" /\ pparams = [nextLink |-> NoLink, fetchAll |-> FALSE,
                                    sectionId |-> FALSE, searchTerm |-> <<>>]
    /\ chain = <<>> /\ ppc = "idle" /\ response = NoResponse
    /\ allValues = <<>> /\ requests = <<>> /\ received = <<>> /\ pfailed = 0
    /\ pout = Pending /\ collected = <<>>

\* the argument lists of each entry point (list-pages.js is modelled on its
\* --next-link and --section-id branches)
ParamsOf(site, c) ==
    IF site = "mcpListPages"
    THEN [nextLink : {NoLink} \cup 2..Len(c), fetchAll : BOOLEAN,
          sectionId : BOOLEAN, searchTerm : {<<>>}]
    ELSE IF site = "cliListPages"
    THEN { a \in [nextLink : {NoLink} \cup 2..Len(c), fetchAll : BOOLEAN,
                  sectionId : BOOLEAN, searchTerm : {<<>>}] :
             a.nextLink # NoLink \/ a.sectionId }
    ELSE [nextLink : {NoLink}, fetchAll : {TRUE},
          sectionId : BOOLEAN, searchTerm : SearchTerms]

PagingInit ==
    /\ psite \in Sites
    /\ chain \in Chains
    /\ pparams \in ParamsOf(psite, chain)
    /\ ppc = "start" /\ response = NoResponse
    /\ allValues = <<>> /\ requests = <<>> /\ received = <<>> /\ pfailed = 0
    /\ pout = Pending /\ collected = <<>>

\* concat with its operands exchanged
concat_Reversed(a, b) == b \o a

\* Array.prototype.concat
concat(a, b) == a \o b

\* a request for page k is issued and the server answers it
Got(k) ==
    /\ requests' = Append(requests, PagesRequest(k))
    /\ received' = Append(received, k)
    /\ response' = ServerPage(chain, k)
    /\ UNCHANGED pfailed

\* a request for page k is issued and fails
Failed(k) ==
    /\ requests' = Append(requests, PagesRequest(k))
    /\ pfailed' = Len(requests) + 1
    /\ UNCHANGED <<received, response>>

Finish(out) == ppc' = "done" /\ pout' = out

\* a loop test that takes every response for the last
hasNextLink_Never(r) == FALSE

\* response['@odata.nextLink'] as a condition
hasNextLink(r) == r.nextLink # NoLink

(* onenote-mcp.mjs, listPages tool *)

\* the nextLink branch: that page is requested and returned
McpListPages_NextLink ==
    /\ psite = "mcpListPages" /\ ppc = "start" /\ pparams.nextLink # NoLink
    /\ \/ /\ Got(pparams.nextLink)
          /\ Finish(Returned(response'.value, response'.nextLink))
       \/ /\ Failed(pparams.nextLink)
          /\ Finish(Thrown)
    /\ UNCHANGED <<psite, pparams, chain, collected, allValues>>
    /\ UNCHANGED <<filterVars, bulkVars, credVars, mcpVars>>

\* no sectionId: the sections are listed and the first one is taken
McpListPages_Sections ==
    /\ psite = "mcpListPages" /\ ppc = "start"
    /\ pparams.nextLink = NoLink /\ ~ pparams.sectionId
    /\ requests' = Append(requests, LookupRequest)
    /\ \/ /\ ppc' = "first" /\ UNCHANGED <<pout, pfailed>>
       \/ /\ Finish(Returned(<<>>, NoLink)) /\ UNCHANGED pfailed
       \/ /\ Finish(Thrown) /\ pfailed' = Len(requests) + 1
    /\ UNCHANGED <<psite, pparams, chain, collected, response, allValues, received>>
    /\ UNCHANGED <<filterVars, bulkVars, credVars, mcpVars>>

\* the first request to the section's pages collection
McpListPages_First ==
    /\ psite = "mcpListPages"
    /\ \/ ppc = "first"
       \/ ppc = "start" /\ pparams.nextLink = NoLink /\ pparams.sectionId
    /\ \/ /\ Got(1)
          /\ allValues' = response'.value
          /\ IF pparams.fetchAll
             THEN IF hasNextLink(response')
                  THEN ppc' = "loop" /\ UNCHANGED pout
                  ELSE Finish(Returned(allValues', NoLink))
             ELSE Finish(Returned(allValues', response'.nextLink))
       \/ /\ Failed(1)
          /\ Finish(Thrown)
          /\ UNCHANGED allValues
    /\ UNCHANGED <<psite, pparams, chain, collected>>
    /\ UNCHANGED <<filterVars, bulkVars, credVars, mcpVars>>

\* one turn of while (response["@odata.nextLink"])
McpListPages_Loop ==
    /\ psite = "mcpListPages" /\ ppc = "loop"
    /\ \/ /\ Got(response.nextLink)
          /\ allValues' = concat(allValues, response'.value)
          /\ IF hasNextLink(response')
             THEN ppc' = "loop" /\ UNCHANGED pout
             ELSE Finish(Returned(allValues', NoLink))
       \/ /\ Failed(response.nextLink)
          /\ Finish(Thrown)
          /\ UNCHANGED allValues
    /\ UNCHANGED <<psite, pparams, chain, collected>>
    /\ UNCHANGED <<filterVars, bulkVars, credVars, mcpVars>>

(* list-pages.js, listPages *)

\* CliPrinted without the link to resume at
CliPrinted_NoLink(pages, link) == Returned(pages, NoLink)

\* what is printed once the pages are in: the list, and the link to resume at
\* (next = fetchAll ? null : pagesResponse['@odata.nextLink'])
CliPrinted(pages, link) ==
    Returned(pages, IF pparams.fetchAll THEN NoLink ELSE link)

\* --next-link: the page behind the link is requested
CliListPages_NextLink ==
    /\ psite = "cliListPages" /\ ppc = "start" /\ pparams.nextLink # NoLink
    /\ \/ /\ Got(pparams.nextLink)
          /\ allValues' = response'.value
          /\ IF pparams.fetchAll /\ hasNextLink(response')
             THEN ppc' = "loop" /\ UNCHANGED pout
             ELSE Finish(CliPrinted(allValues', response'.nextLink))
       \/ /\ Failed(pparams.nextLink)
          /\ Finish(Logged)
          /\ UNCHANGED allValues
    /\ UNCHANGED <<psite, pparams, chain, collected>>
    /\ UNCHANGED <<filterVars, bulkVars, credVars, mcpVars>>

\* --section-id: the section itself is fetched for its display name
CliListPages_Section ==
    /\ psite = "cliListPages" /\ ppc = "start"
    /\ pparams.nextLink = NoLink /\ pparams.sectionId
    /\ requests' = Append(requests, LookupRequest)
    /\ \/ /\ ppc' = "first" /\ UNCHANGED <<pout, pfailed>>
       \/ /\ Finish(Logged) /\ pfailed' = Len(requests) + 1
    /\ UNCHANGED <<psite, pparams, chain, collected, response, allValues, received>>
    /\ UNCHANGED <<filterVars, bulkVars, credVars, mcpVars>>

\* the first request to the section's pages collection
CliListPages_First ==
    /\ psite = "cliListPages" /\ ppc = "first"
    /\ \/ /\ Got(1)
          /\ allValues' = response'.value
          /\ IF pparams.fetchAll /\ hasNextLink(response')
             THEN ppc' = "loop" /\ UNCHANGED pout
             ELSE Finish(CliPrinted(allValues', response'.nextLink))
       \/ /\ Failed(1)
          /\ Finish(Logged)
          /\ UNCHANGED allValues
    /\ UNCHANGED <<psite, pparams, chain, collected>>
    /\ UNCHANGED <<filterVars, bulkVars, credVars, mcpVars>>

\* one turn of while (response['@odata.nextLink']), its try/catch included
CliListPages_Loop ==
    /\ psite = "cliListPages" /\ ppc = "loop"
    /\ \/ /\ Got(response.nextLink)
          /\ allValues' = concat(allValues, response'.value)
          /\ IF hasNextLink(response')
             THEN ppc' = "loop" /\ UNCHANGED pout
             ELSE Finish(CliPrinted(allValues', NoLink))
       \/ /\ Failed(response.nextLink)
          /\ Finish(CliPrinted(allValues, NoLink))
          /\ UNCHANGED allValues
    /\ UNCHANGED <<psite, pparams, chain, collected>>
    /\ UNCHANGED <<filterVars, bulkVars, credVars, mcpVars>>

\* chains told apart by their length and by which pages are empty
LoopChains == SeqsUpTo({ <<>>, <<[id |-> 1, title |-> <<"a">>]>> }, MaxChain) \ { <<>> }

\* a listing or a search over a chain of up to MaxChain pages
LoopInit ==
    /\ psite \in Sites
    /\ chain \in LoopChains
    /\ pparams \in ParamsOf(psite, chain)
    /\ ppc = "start" /\ response = NoResponse
    /\ allValues = <<>> /\ requests = <<>> /\ received = <<>> /\ pfailed = 0
    /\ pout = Pending /\ collected = <<>>

(* manual pagination: the caller of a listing *)

\* a listing from the start of the collection, as a caller paginating by
\* hand or with fetchAll begins
ManualInit ==
    /\ psite \in {"mcpListPages", "cliListPages"}
    /\ chain \in Chains
    /\ pparams \in { a \in ParamsOf(psite, chain) : a.nextLink = NoLink }
    /\ ppc = "start" /\ response = NoResponse
    /\ allValues = <<>> /\ requests = <<>> /\ received = <<>> /\ pfailed = 0
    /\ pout = Pending /\ collected = <<>>

\* the caller keeps the records of a call with fetchAll false and calls the
\* listing again with the link it returned (the tool's nextLink, the
\* --next-link the script printed), verbatim
Resume ==
    /\ psite \in {"mcpListPages", "cliListPages"}
    /\ ppc = "done" /\ pout.status = "returned"
    /\ ~ pparams.fetchAll /\ pout.nextLink # NoLink
    /\ collected' = collected \o pout.value
    /\ pparams' = [pparams EXCEPT !.nextLink = pout.nextLink]
    /\ ppc' = "start" /\ pout' = Pending
    /\ response' = NoResponse /\ allValues' = <<>>
    /\ UNCHANGED <<psite, chain, requests, received, pfailed>>
    /\ UNCHANGED <<filterVars, bulkVars, credVars, mcpVars>>

(* searchPages: the MCP tool and search-pages.js *)

TitleIncludes(page, term) ==
    page.title # <<>> /\ includes(toLowerCase(page.title), term)

\* the tool's result: the pages whose title includes the search term
McpSearchResult(pages) ==
    IF pparams.searchTerm # <<>> /\ Len(trim(pparams.searchTerm)) > 0
    THEN SelectSeq(pages, LAMBDA page : TitleIncludes(page, toLowerCase(pparams.searchTerm)))
    ELSE pages

\* search-pages.js: the term is trimmed before it is compared
CliSearchResult(pages) ==
    IF pparams.searchTerm # <<>> /\ Len(trim(pparams.searchTerm)) > 0
    THEN SelectSeq(pages, LAMBDA page : TitleIncludes(page, toLowerCase(trim(pparams.searchTerm))))
    ELSE pages

McpSearchPages_First ==
    /\ psite = "mcpSearchPages" /\ ppc = "start"
    /\ \/ /\ Got(1)
          /\ allValues' = response'.value
          /\ IF hasNextLink(response')
             THEN ppc' = "loop" /\ UNCHANGED pout
             ELSE Finish(Returned(McpSearchResult(allValues'), NoLink))
       \/ /\ Failed(1)
          /\ Finish(Thrown)
          /\ UNCHANGED allValues
    /\ UNCHANGED <<psite, pparams, chain, collected>>
    /\ UNCHANGED <<filterVars, bulkVars, credVars, mcpVars>>

McpSearchPages_Loop ==
    /\ psite = "mcpSearchPages" /\ ppc = "loop"
    /\ \/ /\ Got(response.nextLink)
          /\ allValues' = concat(allValues, response'.value)
          /\ IF hasNextLink(response')
             THEN ppc' = "loop" /\ UNCHANGED pout
             ELSE Finish(Returned(McpSearchResult(allValues'), NoLink))
       \/ /\ Failed(response.nextLink)
          /\ Finish(Thrown)
          /\ UNCHANGED allValues
    /\ UNCHANGED <<psite, pparams, chain, collected>>
    /\ UNCHANGED <<filterVars, bulkVars, credVars, mcpVars>>

CliSearchPages_First ==
    /\ psite = "cliSearchPages" /\ ppc = "start"
    /\ \/ /\ Got(1)
          /\ allValues' = response'.value
          /\ IF hasNextLink(response')
             THEN ppc' = "loop" /\ UNCHANGED pout
             ELSE Finish(Returned(CliSearchResult(allValues'), NoLink))
       \/ /\ Failed(1)
          /\ Finish(Exit1)
          /\ UNCHANGED allValues
    /\ UNCHANGED <<psite, pparams, chain, collected>>
    /\ UNCHANGED <<filterVars, bulkVars, credVars, mcpVars>>

CliSearchPages_Loop ==
    /\ psite = "cliSearchPages" /\ ppc = "loop"
    /\ \/ /\ Got(response.nextLink)
          /\ allValues' = concat(allValues, response'.value)
          /\ IF hasNextLink(response')
             THEN ppc' = "loop" /\ UNCHANGED pout
             ELSE Finish(Returned(CliSearchResult(allValues'), NoLink))
       \/ /\ Failed(response.nextLink)
          /\ Finish(Exit1)
          /\ UNCHANGED allValues
    /\ UNCHANGED <<psite, pparams, chain, collected>>
    /\ UNCHANGED <<filterVars, bulkVars, credVars, mcpVars>>

-----------------------------------------------------------------------------
(* Bulk export driver: download-all-manifest.js *)

MAX_CONSECUTIVE_FAILURES == 10
FAST_MODE_DAYS == 30

\* new Date() while the driver runs
Now == NewDate([y |-> 2022, m |-> 6, d |-> 30, ms |-> 43200000])

\* formatDate(undefined): "NaNNaNNaN"
NaNDate == 0

\* formatDate: the digits YYYYMMDD read as a number (the machine runs on UTC)
formatDate(ts) == IF ts = NoDate THEN NaNDate ELSE ts.y * 10000 + ts.m * 100 + ts.d

UnsafeChars == {"<", ">", ":", "\"", "/", "\\", "|", "?", "*"}

\* sanitizeFilename: every character of [<>:"/\|?*] becomes _
sanitizeFilename(name) ==
    [k \in 1..Len(name) |-> IF name[k] \in UnsafeChars THEN "_" ELSE name[k]]

\* `${sanitizedTitle}--${formattedDate}.html`
FileName(title, date) == [stem |-> sanitizeFilename(title), date |-> date]

\* hasRecentFileByTitle(pageTitle).found
hasRecentFileByTitle(dir, pageTitle) ==
    LET cutoff == <<Now[1] - FAST_MODE_DAYS, Now[2]>> IN
    \E file \in dir :
        /\ file.stem = sanitizeFilename(pageTitle)
        /\ file.date # NaNDate
        /\ LET year  == file.date \div 10000
               month == (file.date \div 100) % 100
               day   == file.date % 100
               fileDate == <<DaysFromCivil(year, month, day), 0>>
           IN ~ DateLess(fileDate, cutoff)

tN == <<"N">>
tSlash == <<"a","/","b">>
tUnder == <<"a","_","b">>
tPrivate == <<"P","r","i","v","a","t","e">>

Entry(title, id) == [title |-> title, pageId |-> id]

ManifestBases ==
    { <<Entry(tN, 1), Entry(tSlash, 2), Entry(tUnder, 3), Entry(tN, 4)>>,
      <<Entry(tPrivate, 5), Entry(tN, 1), Entry(tN, 1), Entry(tSlash, 2)>> }

Min(a, b) == IF a < b THEN a ELSE b

\* the manifests of a short run: the first lines of the fetched lists above
Manifests ==
    { SubSeq(b, 1, n) : b \in ManifestBases, n \in 0..Min(MaxManifest, 4) }

\* the manifests of a long run: n entries of one title
LongManifests == { [k \in 1..n |-> Entry(tN, k)] : n \in 1..MaxLongManifest }

dOld == [y |-> 2021, m |-> 12, d |-> 31, ms |-> 86399999]
dCutoff == [y |-> 2022, m |-> 1, d |-> 1, ms |-> 0]
dNew == [y |-> 2022, m |-> 6, d |-> 1, ms |-> 0]

\* the metadata the server may return for an entry: the page may have been
\* renamed since the page list was written
MetaPages(title) ==
    [title : {title, tPrivate}, lastModifiedDateTime : {dOld, dCutoff, dNew, NoDate}]

Directories ==
    { {}, {FileName(tN, formatDate(dNew))},
      {FileName(tN, formatDate(dCutoff)), FileName(tUnder, formatDate(dNew))} }

NoResult == [success |-> FALSE, skipped |-> FALSE, reason |-> "", error |-> ""]
Skipped(reason) == [success |-> TRUE, skipped |-> TRUE, reason |-> reason, error |-> ""]
Downloaded == [success |-> TRUE, skipped |-> FALSE, reason |-> "", error |-> ""]
FailedWith(error) == [success |-> FALSE, skipped |-> FALSE, reason |-> "", error |-> error]

NoFile == FileName(<<>>, NaNDate)

\* existsSync seeing no file
existsSync_Never(dir, file) == FALSE

\* fs.existsSync(filePath)
existsSync(dir, file) == file \in dir

\* the breaker tripping one failure late
BreakerTripped_Late(n) == n > MAX_CONSECUTIVE_FAILURES

\* the breaker tripping at the first failure
BreakerTripped_AtFirst(n) == n >= 1

\* consecutiveFailures >= MAX_CONSECUTIVE_FAILURES
BreakerTripped(n) == n >= MAX_CONSECUTIVE_FAILURES

\* a file whose name carries a date within the window was written within
\* it: a page is saved after it was last modified
FreshOf(dir) ==
    { s \in SUBSET dir : \A file \in dir : hasRecentFileByTitle({file}, file.stem) => file \in s }

\* what a request or a write can fail with: a 401 answer, a transient
\* network or server failure, the abort of the 60 s timer, a write error
Faults == {"AuthRejected", "NetworkError", "Timeout", "FilesystemError"}

BulkStart(ms, fast, dir, ok, fs) ==
    /\ manifest \in ms /\ fastMode \in fast /\ files \in dir /\ okLeft \in ok
    /\ faults \in fs
    /\ fresh \in FreshOf(files)
    /\ pagesToDownload = <<>> /\ skippedByTitle = 0 /\ cur = 0 /\ retryCount = 0
    /\ bpc = "main" /\ fetched = <<>> /\ filename = NoFile /\ result = NoResult
    /\ consecutiveFailures = 0 /\ totalSuccess = 0 /\ totalSkipped = 0
    /\ totalFailed = 0 /\ failedPages = <<>> /\ failedLog = <<>> /\ outcomes = <<>>
    /\ nMeta = 0 /\ nContent = 0
    /\ attempted = <<>> /\ asked = {} /\ written = <<>> /\ caught = <<>>
    /\ inflight = 0 /\ timer = FALSE

BulkIdle ==
    /\ manifest = <<>> /\ fastMode = FALSE /\ files = {} /\ okLeft = 0
    /\ faults = {} /\ fresh = {}
    /\ pagesToDownload = <<>> /\ skippedByTitle = 0 /\ cur = 0 /\ retryCount = 0
    /\ bpc = "idle" /\ fetched = <<>> /\ filename = NoFile /\ result = NoResult
    /\ consecutiveFailures = 0 /\ totalSuccess = 0 /\ totalSkipped = 0
    /\ totalFailed = 0 /\ failedPages = <<>> /\ failedLog = <<>> /\ outcomes = <<>>
    /\ nMeta = 0 /\ nContent = 0
    /\ attempted = <<>> /\ asked = {} /\ written = <<>> /\ caught = <<>>
    /\ inflight = 0 /\ timer = FALSE

\* a run meets the failures of a session gone bad (rejections, timeouts) or
\* those of a bad connection and a bad disk
FaultSets == { {"AuthRejected", "Timeout"}, {"NetworkError", "FilesystemError"} }

BulkInit == BulkStart(Manifests, BOOLEAN, Directories, {-1}, FaultSets)

\* a long run against a server that fails in one way
LongInit ==
    BulkStart(LongManifests, {FALSE}, {{}}, 0..MaxOk, {{"NetworkError", "FilesystemError"}})

\* main, up to the download loop: the title filter over the manifest
Main_Filter ==
    /\ bpc = "main"
    /\ pagesToDownload' = SelectSeq(manifest, LAMBDA p : ~ shouldSkipPageByTitle(p.title))
    /\ skippedByTitle' = Len(manifest) - Len(pagesToDownload')
    /\ cur' = 1
    /\ bpc' = IF Len(pagesToDownload') >= 1 THEN "call" ELSE "log"
    /\ UNCHANGED <<manifest, fastMode, files, retryCount, fetched, filename, result,
                   consecutiveFailures, totalSuccess, totalSkipped, totalFailed,
                   failedPages, failedLog, outcomes, nMeta, nContent, okLeft>>
    /\ UNCHANGED <<faults, fresh, attempted, asked, written, caught, inflight, timer>>
    /\ UNCHANGED <<filterVars, pagingVars, credVars, mcpVars>>

\* Catch retrying while retryCount < 2
Catch_TwoRetries(error) ==
    /\ caught' = Append(caught, [error |-> error, requests |-> nMeta + nContent])
    /\ IF retryCount < 2
       THEN retryCount' = retryCount + 1 /\ bpc' = "call" /\ UNCHANGED result
       ELSE result' = FailedWith(error) /\ bpc' = "result" /\ UNCHANGED retryCount

\* Catch returning the failure without a retry
Catch_NoRetry(error) ==
    /\ caught' = Append(caught, [error |-> error, requests |-> nMeta + nContent])
    /\ result' = FailedWith(error) /\ bpc' = "result" /\ UNCHANGED retryCount

\* downloadPage's catch: one retry by a recursive call, then a failed result;
\* caught notes the error and the requests issued for the entry so far
Catch(error) ==
    /\ caught' = Append(caught, [error |-> error, requests |-> nMeta + nContent])
    /\ IF retryCount < 1
       THEN retryCount' = retryCount + 1 /\ bpc' = "call" /\ UNCHANGED result
       ELSE result' = FailedWith(error) /\ bpc' = "result" /\ UNCHANGED retryCount

Return(r) == result' = r /\ bpc' = "result" /\ UNCHANGED <<retryCount, caught>>

\* an abort that leaves the request in flight
abort_KeepsRequest(n) == n

\* controller.abort(): the fetch is cancelled, its request is in flight no more
abort(n) == n - 1

\* downloadPage from its entry to the metadata request
DownloadPage_Call ==
    /\ bpc = "call"
    /\ attempted' = IF retryCount = 0
                    THEN Append(attempted, pagesToDownload[cur]) ELSE attempted
    /\ IF fastMode /\ hasRecentFileByTitle(files, pagesToDownload[cur].title)
       THEN /\ Return(Skipped("fast mode - recent file exists"))
            /\ UNCHANGED <<nMeta, asked, inflight>>
       ELSE /\ nMeta' = nMeta + 1
            /\ asked' = asked \cup {pagesToDownload[cur]}
            /\ inflight' = inflight + 1
            /\ bpc' = "meta"
            /\ UNCHANGED <<result, retryCount, caught>>
    /\ UNCHANGED <<manifest, fastMode, files, pagesToDownload, skippedByTitle, cur, fetched,
                   filename, consecutiveFailures, totalSuccess, totalSkipped,
                   totalFailed, failedPages, failedLog, outcomes, nContent, okLeft>>
    /\ UNCHANGED <<faults, fresh, written, timer>>
    /\ UNCHANGED <<filterVars, pagingVars, credVars, mcpVars>>

\* downloadPage from the metadata response to the content request, which
\* arms the 60 s timer
DownloadPage_Metadata ==
    /\ bpc = "meta"
    /\ \/ /\ okLeft # 0
          /\ okLeft' = IF okLeft > 0 THEN okLeft - 1 ELSE okLeft
          /\ \E p \in MetaPages(pagesToDownload[cur].title) :
                /\ fetched' = <<p>>
                /\ IF shouldSkipByDate(p)
                   THEN /\ Return(Skipped("old date"))
                        /\ inflight' = inflight - 1
                        /\ UNCHANGED <<filename, nContent, timer>>
                   ELSE /\ filename' = FileName(pagesToDownload[cur].title,
                                                formatDate(p.lastModifiedDateTime))
                        /\ IF existsSync(files, filename')
                           THEN /\ Return(Skipped("already exists"))
                                /\ inflight' = inflight - 1
                                /\ UNCHANGED <<nContent, timer>>
                           ELSE /\ nContent' = nContent + 1
                                /\ inflight' = (inflight - 1) + 1
                                /\ timer' = TRUE
                                /\ bpc' = "content"
                                /\ UNCHANGED <<result, retryCount, caught>>
       \/ /\ \E e \in {"AuthRejected", "NetworkError"} \cap faults : Catch(e)
          /\ inflight' = inflight - 1
          /\ UNCHANGED <<fetched, filename, nContent, okLeft, timer>>
    /\ UNCHANGED <<manifest, fastMode, files, pagesToDownload, skippedByTitle, cur,
                   consecutiveFailures, totalSuccess, totalSkipped, totalFailed,
                   failedPages, failedLog, outcomes, nMeta>>
    /\ UNCHANGED <<faults, fresh, attempted, asked, written>>
    /\ UNCHANGED <<filterVars, pagingVars, credVars, mcpVars>>

\* downloadPage while fetch is awaited: the response arrives and the timer
\* is cleared, or the status is not ok, or fetch rejects, or the timer fires
\* and aborts the fetch
DownloadPage_Content ==
    /\ bpc = "content"
    /\ \/ /\ timer' = FALSE
          /\ bpc' = "body"
          /\ UNCHANGED <<inflight, result, retryCount, caught>>
       \/ /\ \E e \in {"AuthRejected", "NetworkError"} \cap faults : Catch(e)
          /\ timer' = FALSE
          /\ inflight' = inflight - 1
       \/ /\ timer /\ "Timeout" \in faults
          /\ timer' = FALSE
          /\ inflight' = abort(inflight)
          /\ Catch("Timeout")
    /\ UNCHANGED <<manifest, fastMode, files, pagesToDownload, skippedByTitle, cur, fetched,
                   filename, consecutiveFailures, totalSuccess, totalSkipped, totalFailed,
                   failedPages, failedLog, outcomes, nMeta, nContent, okLeft>>
    /\ UNCHANGED <<faults, fresh, attempted, asked, written>>
    /\ UNCHANGED <<filterVars, pagingVars, credVars, mcpVars>>

\* downloadPage while response.text() is awaited, and on to its return: the
\* body is saved, or reading it throws, or the write throws (with or without
\* the file left behind)
DownloadPage_Body ==
    /\ bpc = "body"
    /\ inflight' = inflight - 1
    /\ \/ /\ files' = files \cup {filename}
          /\ written' = Append(written, [entry |-> pagesToDownload[cur],
                                         file |-> filename,
                                         existed |-> filename \in files])
          /\ Return(Downloaded)
       \/ /\ "NetworkError" \in faults
          /\ Catch("NetworkError")
          /\ UNCHANGED <<files, written>>
       \/ /\ "FilesystemError" \in faults
          /\ Catch("FilesystemError")
          /\ \/ UNCHANGED <<files, written>>
             \/ /\ files' = files \cup {filename}
                /\ written' = Append(written, [entry |-> pagesToDownload[cur],
                                               file |-> filename,
                                               existed |-> filename \in files])
    /\ UNCHANGED <<manifest, fastMode, pagesToDownload, skippedByTitle, cur, fetched, filename,
                   consecutiveFailures, totalSuccess, totalSkipped, totalFailed,
                   failedPages, failedLog, outcomes, nMeta, nContent, okLeft>>
    /\ fresh' = fresh \cup (files' \ files)
    /\ UNCHANGED <<faults, attempted, asked, timer>>
    /\ UNCHANGED <<filterVars, pagingVars, credVars, mcpVars>>

\* an array growing at its front
push_Front(arr, x) == <<x>> \o arr

\* Array.prototype.push
push(arr, x) == Append(arr, x)

OutcomeOf(r) ==
    IF ~ r.success THEN "failed" ELSE IF r.skipped THEN "skipped" ELSE "downloaded"

\* main, one turn of the download loop after downloadPage returned
Main_Result ==
    /\ bpc = "result"
    /\ outcomes' = Append(outcomes, OutcomeOf(result))
    /\ IF result.success
       THEN /\ consecutiveFailures' = 0
            /\ totalSkipped' = IF result.skipped THEN totalSkipped + 1 ELSE totalSkipped
            /\ totalSuccess' = IF result.skipped THEN totalSuccess ELSE totalSuccess + 1
            /\ UNCHANGED <<totalFailed, failedPages>>
       ELSE /\ consecutiveFailures' = consecutiveFailures + 1
            /\ totalFailed' = totalFailed + 1
            /\ failedPages' = push(failedPages,
                   [title |-> pagesToDownload[cur].title,
                    pageId |-> pagesToDownload[cur].pageId, error |-> result.error])
            /\ UNCHANGED <<totalSuccess, totalSkipped>>
    /\ IF (~ result.success /\ BreakerTripped(consecutiveFailures'))
          \/ cur + 1 > Len(pagesToDownload)
       THEN /\ bpc' = "log"
            /\ UNCHANGED <<cur, retryCount, fetched, filename, nMeta, nContent, caught>>
       ELSE /\ bpc' = "call" /\ cur' = cur + 1
            /\ retryCount' = 0 /\ fetched' = <<>> /\ filename' = NoFile
            /\ nMeta' = 0 /\ nContent' = 0 /\ caught' = <<>>
    /\ UNCHANGED <<manifest, fastMode, files, pagesToDownload, skippedByTitle, result,
                   failedLog, okLeft>>
    /\ UNCHANGED <<faults, fresh, attempted, asked, written, inflight, timer>>
    /\ UNCHANGED <<filterVars, pagingVars, credVars, mcpVars>>

\* main after the loop: the failure log, one line per failed entry; when
\* that write throws, main rejects and main().catch ends the process
Main_WriteFailedLog ==
    /\ bpc = "log"
    /\ \/ /\ failedLog' = IF Len(failedPages) > 0
                          THEN [k \in 1..Len(failedPages) |->
                                  <<failedPages[k].title, failedPages[k].pageId,
                                    failedPages[k].error>>]
                          ELSE failedLog
          /\ bpc' = "done"
       \/ /\ Len(failedPages) > 0 /\ "FilesystemError" \in faults
          /\ bpc' = "fatal"
          /\ UNCHANGED failedLog
    /\ UNCHANGED <<manifest, fastMode, files, pagesToDownload, skippedByTitle, cur,
                   retryCount, fetched, filename, result, consecutiveFailures,
                   totalSuccess, totalSkipped, totalFailed, failedPages, outcomes,
                   nMeta, nContent, okLeft>>
    /\ UNCHANGED <<faults, fresh, attempted, asked, written, caught, inflight, timer>>
    /\ UNCHANGED <<filterVars, pagingVars, credVars, mcpVars>>

-----------------------------------------------------------------------------
(* Credentials: .access-token.txt and the code that reads it *)

\* JavaScript values: undefined, null, strings, numbers and objects; an
\* object is the list of its members in the order written
JsUndefined == [type |-> "undefined", str |-> <<>>, members |-> <<>>]
JsNull == [type |-> "null", str |-> <<>>, members |-> <<>>]
JsString(s) == [type |-> "string", str |-> s, members |-> <<>>]
JsNumber(s) == [type |-> "number", str |-> s, members |-> <<>>]
JsObject(ms) == [type |-> "object", str |-> <<>>, members |-> ms]

\* !!value
Truthy(v) ==
    \/ v.type = "string" /\ v.str # <<>>
    \/ v.type = "number" /\ v.str # <<"0">>
    \/ v.type = "object"

Q == "\""
Digits == {"0", "1", "2", "3", "4", "5", "6", "7", "8", "9"}

RECURSIVE SkipWs(_, _)
\* the first position from i on that holds no white space
SkipWs(s, i) == IF i <= Len(s) /\ IsWs(s[i]) THEN SkipWs(s, i + 1) ELSE i

RECURSIVE ParseString(_, _, _)
\* the string literal whose opening quote precedes s[j]: the characters it
\* stands for and the position after its closing quote; of the escapes,
\* those of the quote, the backslash, the slash and of white space are
\* read (the files considered hold no others)
ParseString(s, j, acc) ==
    IF j > Len(s) THEN [ok |-> FALSE, str |-> <<>>, next |-> 0]
    ELSE IF s[j] = Q THEN [ok |-> TRUE, str |-> acc, next |-> j + 1]
    ELSE IF s[j] = "\\"
    THEN IF j + 1 > Len(s) THEN [ok |-> FALSE, str |-> <<>>, next |-> 0]
         ELSE IF s[j + 1] \in {Q, "\\", "/"} THEN ParseString(s, j + 2, Append(acc, s[j + 1]))
         ELSE IF s[j + 1] = "n" THEN ParseString(s, j + 2, Append(acc, "\n"))
         ELSE IF s[j + 1] = "t" THEN ParseString(s, j + 2, Append(acc, "\t"))
         ELSE IF s[j + 1] = "r" THEN ParseString(s, j + 2, Append(acc, "\r"))
         ELSE [ok |-> FALSE, str |-> <<>>, next |-> 0]
    ELSE IF s[j] \in {"\n", "\t", "\r"} THEN [ok |-> FALSE, str |-> <<>>, next |-> 0]
    ELSE ParseString(s, j + 1, Append(acc, s[j]))

RECURSIVE DigitsEnd(_, _)
DigitsEnd(s, j) == IF j <= Len(s) /\ s[j] \in Digits THEN DigitsEnd(s, j + 1) ELSE j

StartsWith(s, i, w) == i + Len(w) - 1 <= Len(s) /\ SubSeq(s, i, i + Len(w) - 1) = w

ParseFail == [ok |-> FALSE, val |-> JsUndefined, next |-> 0]
Parsed(v, next) == [ok |-> TRUE, val |-> v, next |-> next]

RECURSIVE ParseValue(_, _), ParseMembers(_, _, _)
\* the JSON value that starts at s[i]: a string, an integer, null or an object
ParseValue(s, i) ==
    IF i > Len(s) THEN ParseFail
    ELSE IF s[i] = Q
    THEN LET lit == ParseString(s, i + 1, <<>>) IN
         IF ~ lit.ok THEN ParseFail ELSE Parsed(JsString(lit.str), lit.next)
    ELSE IF s[i] = "0" THEN Parsed(JsNumber(<<"0">>), i + 1)
    ELSE IF s[i] \in Digits
    THEN LET j == DigitsEnd(s, i) IN Parsed(JsNumber(SubSeq(s, i, j - 1)), j)
    ELSE IF StartsWith(s, i, <<"n","u","l","l">>) THEN Parsed(JsNull, i + 4)
    ELSE IF s[i] = "{"
    THEN LET k == SkipWs(s, i + 1) IN
         IF k <= Len(s) /\ s[k] = "}" THEN Parsed(JsObject(<<>>), k + 1)
         ELSE ParseMembers(s, k, <<>>)
    ELSE ParseFail

\* the members of an object from the key at s[i] to the closing brace
ParseMembers(s, i, acc) ==
    LET key == IF i <= Len(s) /\ s[i] = Q THEN ParseValue(s, i) ELSE ParseFail IN
    IF ~ key.ok THEN ParseFail
    ELSE LET c == SkipWs(s, key.next) IN
         IF c > Len(s) \/ s[c] # ":" THEN ParseFail
         ELSE LET v == ParseValue(s, SkipWs(s, c + 1)) IN
              IF ~ v.ok THEN ParseFail
              ELSE LET e == SkipWs(s, v.next)
                       ms == Append(acc, [key |-> key.val.str, value |-> v.val])
                   IN  IF e > Len(s) THEN ParseFail
                       ELSE IF s[e] = "}" THEN Parsed(JsObject(ms), e + 1)
                       ELSE IF s[e] = "," THEN ParseMembers(s, SkipWs(s, e + 1), ms)
                       ELSE ParseFail

\* JSON.parse: .ok is FALSE where it throws a SyntaxError
JSONParse(s) ==
    LET v == ParseValue(s, SkipWs(s, 1)) IN
    IF v.ok /\ SkipWs(s, v.next) = Len(s) + 1 THEN v ELSE ParseFail

RECURSIVE Escaped(_)
\* the characters of a string as JSON.stringify writes them between quotes
Escaped(s) ==
    IF s = <<>> THEN <<>>
    ELSE (IF Head(s) \in {Q, "\\"} THEN <<"\\", Head(s)>>
          ELSE IF Head(s) = "\n" THEN <<"\\", "n">>
          ELSE IF Head(s) = "\t" THEN <<"\\", "t">>
          ELSE IF Head(s) = "\r" THEN <<"\\", "r">>
          ELSE <<Head(s)>>) \o Escaped(Tail(s))

\* Escaped leaving the quote as it is
Escaped_Raw(s) == s

\* JSON.stringify({ token: v }): a member that is undefined is left out
stringifyToken(v) ==
    IF v.type = "undefined" THEN <<"{", "}">>
    ELSE <<"{", Q>> \o <<"t","o","k","e","n">> \o <<Q, ":">>
         \o (IF v.type = "string" THEN <<Q>> \o Escaped(v.str) \o <<Q>>
             ELSE IF v.type = "number" THEN v.str
             ELSE <<"n","u","l","l">>)
         \o <<"}">>

\* value[key] of a value that is not null: the last member of that name
Get(v, key) ==
    LET at == { k \in 1..Len(v.members) : v.members[k].key = key } IN
    IF at = {} THEN JsUndefined
    ELSE v.members[CHOOSE k \in at : \A j \in at : j <= k].value

kToken == <<"t","o","k","e","n">>
kAccessToken == <<"a","c","c","e","s","s","_","t","o","k","e","n">>

\* try { JSON.parse(tokenData).token } catch { tokenData }: the catch also
\* takes the TypeError of reading .token of null
parsedTokenOrRaw(tokenData) ==
    LET parsedToken == JSONParse(tokenData) IN
    IF parsedToken.ok /\ parsedToken.val.type # "null"
    THEN Get(parsedToken.val, kToken)
    ELSE JsString(tokenData)

\* list-sections: the file is trimmed, access_token is the alternate field,
\* the field is trimmed; the catch also takes the TypeError of .trim on a
\* value that is no string
listSectionsToken(fileText) ==
    LET tokenData == trim(fileText)
        parsedToken == JSONParse(tokenData)
    IN  IF ~ parsedToken.ok \/ parsedToken.val.type = "null" THEN JsString(tokenData)
        ELSE LET t == Get(parsedToken.val, kToken)
                 a == Get(parsedToken.val, kAccessToken)
                 picked == IF Truthy(t) THEN t ELSE IF Truthy(a) THEN a ELSE JsString(<<>>)
             IN  IF picked.type = "string" THEN JsString(trim(picked.str))
                 ELSE JsString(tokenData)

tokX == <<"e","y","J">>

\* "key":"value" and { members } as written in a file
JsonMember(key, value) == <<Q>> \o key \o <<Q, ":", Q>> \o value \o <<Q>>
JsonText(ms) == <<"{">> \o ms \o <<"}">>

\* what a credential file may hold between its leading and trailing white space
FileBodies ==
    { <<>>, tokX, <<"e"," ","J">>,
      JsonText(JsonMember(kToken, tokX)),
      JsonText(JsonMember(kToken, <<>>)),
      JsonText(JsonMember(kToken, <<" ">> \o tokX)),
      JsonText(JsonMember(kAccessToken, tokX)),
      JsonText(JsonMember(kAccessToken, <<"o">>) \o <<",">> \o JsonMember(kToken, tokX)),
      JsonText(<<>>),
      <<"{", " ", Q,"t","o","k","e","n",Q, " ", ":", "\n", Q,"e","y","J",Q, " ", "}">>,
      <<"{", Q,"t","o","k","e","n",Q, ":", "7", "}">>,
      <<"n","u","l","l">>, <<"7">>, <<Q>> \o tokX \o <<Q>>,
      <<"{">> \o tokX }

WsChars == {" ", "\n"}

\* tokenFile holds at most one value: <<>> when .access-token.txt does not exist
TokenFiles ==
    { <<>> } \cup { << a \o b \o c >> : a \in SeqsUpTo(WsChars, MaxPad), b \in FileBodies,
                                       c \in SeqsUpTo(WsChars, MaxPad) }

CliSites == {"list-pages", "list-sections", "get-page-content", "get-page", "search-pages"}

\* accessToken of list-pages.js once the file has been read
listPagesToken(file) == parsedTokenOrRaw(file[1])

\* accessToken of get-page-content.js once the file has been read
getPageContentToken(file) == parsedTokenOrRaw(file[1])

\* accessToken of search-pages.js once the file has been read
searchPagesToken(file) == parsedTokenOrRaw(file[1])

\* get-page.js getAccessToken: readFileSync throws when there is no file
getAccessToken(file) == IF file = <<>> THEN JsNull ELSE parsedTokenOrRaw(file[1])

\* download-all-pages.js: accessToken when the module has been evaluated
downloadAllToken(file) == IF file = <<>> THEN JsNull ELSE parsedTokenOrRaw(file[1])

\* a request as the server sees it: what is asked for and the bearer token
Request(target, token) == [target |-> target, bearer |-> token]

NoOutcome == [missing |-> FALSE, failed |-> FALSE, logged |-> FALSE, exit |-> -1]

\* metadata a single-page script may be answered with
CliPages ==
    { [title |-> tN, lastModifiedDateTime |-> dNew],
      [title |-> tPrivate, lastModifiedDateTime |-> dNew],
      [title |-> tN, lastModifiedDateTime |-> dOld],
      [title |-> NoTitle, lastModifiedDateTime |-> dNew] }

CredIdle ==
    /\ tokenFile = <<>> /\ envToken = <<>> /\ accessToken = JsUndefined
    /\ graphClient = FALSE /\ csite = "none" /\ cpc = "idle" /\ creqs = <<>>
    /\ cpage = <<>> /\ cout = NoOutcome

CredInit ==
    /\ tokenFile \in TokenFiles /\ envToken = <<>> /\ accessToken = JsUndefined
    /\ graphClient = FALSE /\ csite \in CliSites \cup {"download-all-pages"}
    /\ cpc = "load" /\ creqs = <<>> /\ cpage = <<>> /\ cout = NoOutcome

\* the script ends: the event loop drains (status 0) or process.exit(status)
Exit(status) == cpc' = "exit" /\ cout' = [cout EXCEPT !.exit = status]

\* console.error of a missing credential, then the end of the script
Missing(status) ==
    /\ cpc' = "exit"
    /\ cout' = [cout EXCEPT !.missing = TRUE, !.logged = TRUE, !.exit = status]

\* a request threw into a catch that ends the script: console.error
Caught(status) ==
    /\ cpc' = "exit"
    /\ cout' = [cout EXCEPT !.failed = TRUE, !.logged = TRUE, !.exit = status]

\* client.api(target).get() is called: the client asks authProvider for the token
Issue(target) ==
    /\ cpc' = target
    /\ creqs' = Append(creqs, Request(target, accessToken'))

\* if (!accessToken) { console.error(...); return or exit } else the first request
Loaded(token, status, target) ==
    /\ accessToken' = token
    /\ IF Truthy(token)
       THEN Issue(target) /\ UNCHANGED cout
       ELSE Missing(status) /\ UNCHANGED creqs
    /\ UNCHANGED <<tokenFile, envToken, graphClient, csite, cpage>>
    /\ UNCHANGED <<filterVars, pagingVars, bulkVars, mcpVars>>

\* list-pages.js listPages up to its first request
ListPages_Load ==
    /\ csite = "list-pages" /\ cpc = "load"
    /\ IF tokenFile = <<>>
       THEN Loaded(JsUndefined, 0, "pages")
       ELSE Loaded(listPagesToken(tokenFile), 0, "pages")

\* list-sections listSections up to its first request
ListSections_Load ==
    /\ csite = "list-sections" /\ cpc = "load"
    /\ IF tokenFile = <<>>
       THEN Loaded(JsUndefined, 0, "notebooks")
       ELSE Loaded(listSectionsToken(tokenFile[1]), 0, "notebooks")

\* get-page-content.js getPageContent up to its first request
GetPageContent_Load ==
    /\ csite = "get-page-content" /\ cpc = "load"
    /\ IF tokenFile = <<>>
       THEN Loaded(JsUndefined, 0, "metadata")
       ELSE Loaded(getPageContentToken(tokenFile), 0, "metadata")

\* get-page.js getPageContent up to its first request
GetPage_Load ==
    /\ csite = "get-page" /\ cpc = "load"
    /\ Loaded(getAccessToken(tokenFile), 0, "metadata")

\* search-pages.js searchPages up to its first request
SearchPages_Load ==
    /\ csite = "search-pages" /\ cpc = "load"
    /\ IF tokenFile = <<>>
       THEN Loaded(JsUndefined, 1, "pages")
       ELSE Loaded(searchPagesToken(tokenFile), 1, "pages")

\* download-all-pages.js from its first line to the call of main
DownloadAll_Load ==
    /\ csite = "download-all-pages" /\ cpc = "load"
    /\ accessToken' = downloadAllToken(tokenFile)
    /\ IF Truthy(accessToken')
       THEN cpc' = "main" /\ graphClient' = TRUE /\ UNCHANGED cout
       ELSE Missing(1) /\ UNCHANGED graphClient
    /\ UNCHANGED <<tokenFile, envToken, csite, creqs, cpage>>
    /\ UNCHANGED <<filterVars, pagingVars, bulkVars, mcpVars>>

CredKeep == UNCHANGED <<tokenFile, envToken, accessToken, graphClient, csite>>

\* list-sections from the notebooks response on: the sections are requested
\* when the notebook is found, a throw goes to the catch (console.error, return)
ListSections_Notebooks ==
    /\ csite = "list-sections" /\ cpc = "notebooks"
    /\ CredKeep
    /\ \/ Exit(0) /\ UNCHANGED creqs
       \/ Issue("sections") /\ UNCHANGED cout
       \/ Caught(0) /\ UNCHANGED creqs
    /\ UNCHANGED cpage
    /\ UNCHANGED <<filterVars, pagingVars, bulkVars, mcpVars>>

\* list-sections from the sections response on
ListSections_Sections ==
    /\ csite = "list-sections" /\ cpc = "sections"
    /\ CredKeep
    /\ \/ Exit(0)
       \/ Caught(0)
    /\ UNCHANGED <<creqs, cpage>>
    /\ UNCHANGED <<filterVars, pagingVars, bulkVars, mcpVars>>

\* get-page-content.js and get-page.js from the metadata response on: a page
\* the filter excludes ends the script, any other has its content requested
GetPage_Metadata ==
    /\ csite \in {"get-page-content", "get-page"} /\ cpc = "metadata"
    /\ CredKeep
    /\ \/ \E p \in CliPages :
            /\ cpage' = <<p>>
            /\ IF shouldSkipPageCli(p)
               THEN Exit(0) /\ UNCHANGED creqs
               ELSE Issue("content") /\ UNCHANGED cout
       \/ Caught(0) /\ UNCHANGED <<creqs, cpage>>
    /\ UNCHANGED <<filterVars, pagingVars, bulkVars, mcpVars>>

\* get-page-content.js and get-page.js from the content response on: the
\* file name is made from page.title (a TypeError when there is none), the
\* body is written; every throw goes to the catch (console.error, return)
GetPage_Content ==
    /\ csite \in {"get-page-content", "get-page"} /\ cpc = "content"
    /\ CredKeep
    /\ \/ Caught(0)
       \/ /\ cpage[1].title = NoTitle
          /\ cpc' = "exit" /\ cout' = [cout EXCEPT !.logged = TRUE, !.exit = 0]
       \/ /\ cpage[1].title # NoTitle
          /\ \/ Exit(0)
             \/ cpc' = "exit" /\ cout' = [cout EXCEPT !.logged = TRUE, !.exit = 0]
    /\ UNCHANGED <<creqs, cpage>>
    /\ UNCHANGED <<filterVars, pagingVars, bulkVars, mcpVars>>

\* list-pages.js from a pages response on: with --fetch-all the next link is
\* requested; a throw of the first request goes to the outer catch, a throw
\* in the loop to the inner one, which prints what was fetched; all return
ListPages_Pages ==
    /\ csite = "list-pages" /\ cpc = "pages"
    /\ CredKeep
    /\ \/ Exit(0) /\ UNCHANGED creqs
       \/ /\ Len(creqs) < MaxChain
          /\ Issue("pages") /\ UNCHANGED cout
       \/ Caught(0) /\ UNCHANGED creqs
    /\ UNCHANGED cpage
    /\ UNCHANGED <<filterVars, pagingVars, bulkVars, mcpVars>>

\* search-pages.js from a pages response on: every next link is requested;
\* a throw goes to the catch (console.error, process.exit(1))
SearchPages_Pages ==
    /\ csite = "search-pages" /\ cpc = "pages"
    /\ CredKeep
    /\ \/ Exit(0) /\ UNCHANGED creqs
       \/ /\ Len(creqs) < MaxChain
          /\ Issue("pages") /\ UNCHANGED cout
       \/ Caught(1) /\ UNCHANGED creqs
    /\ UNCHANGED cpage
    /\ UNCHANGED <<filterVars, pagingVars, bulkVars, mcpVars>>

-----------------------------------------------------------------------------
(* onenote-mcp.mjs: the server process and its tool calls *)

Tools == {"listNotebooks", "getPage", "searchPages"}

Calls == 1..MaxCalls

\* a slot in which no call runs
NoCall == [tool |-> "none", pc |-> "idle", timer |-> FALSE]

tokE == <<"e","y","E">>
tokS == <<"e","y","S">>
tokQ == <<"e", Q, "\\">>
tokD == <<"e","y","D">>

\* the credential files and environments the server is started with
ServerFiles ==
    { <<>>, <<tokX>>, <<JsonText(JsonMember(kToken, tokX))>>, <<JsonText(<<>>)>> }

ServerEnvs == { <<>>, <<tokE>> }

McpIdle == calls = <<>> /\ outstanding = {} /\ reply = "none" /\ bearer = <<>> /\ saved = <<>>

McpInit ==
    /\ tokenFile \in ServerFiles /\ envToken \in ServerEnvs
    /\ accessToken = JsNull /\ graphClient = FALSE
    /\ csite = "onenote-mcp" /\ cpc = "load" /\ creqs = <<>>
    /\ cpage = <<>> /\ cout = NoOutcome
    /\ calls = [c \in Calls |-> NoCall] /\ outstanding = {}
    /\ reply = "none" /\ bearer = <<>> /\ saved = <<>>

\* what the server process never assigns
ProcessKeep ==
    /\ UNCHANGED <<envToken, csite, creqs, cpage, cout>>
    /\ UNCHANGED <<filterVars, pagingVars, bulkVars>>

\* module evaluation: the stored token, else GRAPH_ACCESS_TOKEN; then
\* main connects the transport
Server_Startup ==
    /\ csite = "onenote-mcp" /\ cpc = "load"
    /\ LET stored == IF tokenFile = <<>> THEN JsNull ELSE parsedTokenOrRaw(tokenFile[1])
       IN  accessToken' = IF ~ Truthy(stored) /\ envToken # <<>>
                          THEN JsString(envToken[1]) ELSE stored
    /\ cpc' = "serve"
    /\ UNCHANGED <<tokenFile, graphClient, calls, outstanding, reply, bearer, saved>>
    /\ ProcessKeep

\* ensureGraphClient keeping the token it has when a client is to be made
ensuredToken_Kept == accessToken

\* accessToken when ensureGraphClient has run: without a client the file, if
\* there is one, is read again
ensuredToken ==
    IF graphClient \/ tokenFile = <<>> THEN accessToken ELSE parsedTokenOrRaw(tokenFile[1])

\* a client that presents the token it was started with
authProvider_AtStartup(token) == IF envToken # <<>> THEN JsString(envToken[1]) ELSE token

\* authProvider / getAccessToken of the client and the Authorization header
\* of fetch: the value of accessToken when the request is made
authProvider(token) == token

\* the request of call c is over: answered, failed or aborted
Settled(c) == outstanding \ { r \in outstanding : r.call = c }

\* graphClient.api(target).get() or fetch(url) of call c is called with
\* accessToken being token: the request is outstanding until it is
\* answered, fails or is aborted
Send(c, target, token) ==
    /\ outstanding' = Settled(c) \cup {[call |-> c, target |-> target]}
    /\ bearer' = <<authProvider(token)>>

\* the handler of call c returns its content
Returns(c) ==
    /\ calls' = [calls EXCEPT ![c] = NoCall]
    /\ reply' = "ok"

\* the handler of call c throws out of its catch, "Failed to ...: " and the
\* message of the error
Throws(c, error) ==
    /\ calls' = [calls EXCEPT ![c] = NoCall]
    /\ reply' = error

\* a tool call arrives and its handler runs to its first await of a
\* response: ensureGraphClient, the check of the arguments, the first request
Tool_Call ==
    /\ csite = "onenote-mcp" /\ cpc = "serve"
    /\ \E c \in Calls, tool \in Tools, pageId \in BOOLEAN :
        /\ calls[c].pc = "idle"
        /\ tool # "getPage" => pageId
        /\ accessToken' = ensuredToken
        /\ IF ~ Truthy(accessToken')
           THEN /\ Throws(c, "Access token not found")
                /\ UNCHANGED <<graphClient, outstanding, bearer>>
           ELSE /\ graphClient' = TRUE
                /\ IF ~ pageId
                   THEN /\ Throws(c, "Page ID is required")
                        /\ UNCHANGED <<outstanding, bearer>>
                   ELSE LET target == CASE tool = "listNotebooks" -> "notebooks"
                                        [] tool = "getPage" -> "metadata"
                                        [] tool = "searchPages" -> "pages"
                        IN  /\ calls' = [calls EXCEPT ![c] =
                                            [NoCall EXCEPT !.tool = tool, !.pc = target]]
                            /\ Send(c, target, accessToken')
                            /\ UNCHANGED reply
    /\ UNCHANGED <<tokenFile, cpc, saved>>
    /\ ProcessKeep

ServerKeep ==
    /\ UNCHANGED <<tokenFile, accessToken, graphClient, cpc, saved>>
    /\ ProcessKeep

\* the handler of call c returns its content
Reply(c) ==
    /\ Returns(c)
    /\ outstanding' = Settled(c)
    /\ UNCHANGED bearer

\* the awaited request of call c throws into the catch of its handler
Throw(c, error) ==
    /\ Throws(c, error)
    /\ outstanding' = Settled(c)
    /\ UNCHANGED bearer

\* listNotebooks from the response on
ListNotebooks_Response ==
    /\ \E c \in Calls :
        /\ calls[c].tool = "listNotebooks" /\ calls[c].pc = "notebooks"
        /\ \/ Reply(c)
           \/ Throw(c, "request")
    /\ ServerKeep

\* getPage from the metadata response on: a page the filter excludes is
\* answered "Page skipped", any other has its content fetched under a timer
GetPageTool_Metadata ==
    /\ \E c \in Calls :
        /\ calls[c].tool = "getPage" /\ calls[c].pc = "metadata"
        /\ \/ \E page \in CliPages :
                IF shouldSkipPage(page).skip
                THEN Reply(c)
                ELSE /\ calls' = [calls EXCEPT ![c].pc = "content", ![c].timer = TRUE]
                     /\ Send(c, "content", accessToken)
                     /\ UNCHANGED reply
           \/ Throw(c, "request")
    /\ ServerKeep

\* getPage from the settlement of fetch on: with the headers the timer is
\* cleared and the body awaited; a rejection or a status that is not ok throws
GetPageTool_Content ==
    /\ \E c \in Calls :
        /\ calls[c].tool = "getPage" /\ calls[c].pc = "content"
        /\ \/ /\ calls' = [calls EXCEPT ![c].pc = "body", ![c].timer = FALSE]
              /\ UNCHANGED <<outstanding, reply, bearer>>
           \/ Throw(c, "HTTP error")
           \/ Throw(c, "request")
    /\ ServerKeep

\* getPage: REQUEST_TIMEOUT_MS pass before the headers, controller.abort()
GetPageTool_Timeout ==
    /\ \E c \in Calls :
        /\ calls[c].tool = "getPage" /\ calls[c].pc = "content" /\ calls[c].timer
        /\ Throw(c, "aborted")
    /\ ServerKeep

\* getPage from the settlement of response.text() on
GetPageTool_Body ==
    /\ \E c \in Calls :
        /\ calls[c].tool = "getPage" /\ calls[c].pc = "body"
        /\ \/ Reply(c)
           \/ Throw(c, "request")
    /\ ServerKeep

\* searchPages from a pages response on: every next link is requested
SearchPagesTool_Pages ==
    /\ \E c \in Calls :
        /\ calls[c].tool = "searchPages" /\ calls[c].pc = "pages"
        /\ \/ /\ Send(c, "pages", accessToken)
              /\ UNCHANGED <<calls, reply>>
           \/ Reply(c)
           \/ Throw(c, "request")
    /\ ServerKeep

\* params.random_string of a saveAccessToken call: absent, or a string
SaveArgs == { JsUndefined, JsString(tokS), JsString(tokQ) }

\* tokenResponse.token of a device code exchange that succeeds
ExchangeTokens == { tokD }

\* writeToken leaving strings as they are between the quotes
writeToken_Unescaped(token) ==
    IF token.type = "string"
    THEN << <<"{", Q, "t","o","k","e","n", Q, ":", Q>> \o token.str \o <<Q, "}">> >>
    ELSE << stringifyToken(token) >>

\* what fs.writeFileSync(tokenFilePath, JSON.stringify({ token })) leaves
writeToken(token) == << stringifyToken(token) >>

\* createGraphClient for call c of tool, up to its return or to the await
\* of credential.getToken
CreateGraphClient(c, tool) ==
    IF Truthy(accessToken')
    THEN /\ graphClient' = TRUE
         /\ Returns(c)
         /\ UNCHANGED outstanding
    ELSE /\ calls' = [calls EXCEPT ![c] = [NoCall EXCEPT !.tool = tool, !.pc = "exchange"]]
         /\ outstanding' = outstanding \cup {[call |-> c, target |-> "deviceCode"]}
         /\ UNCHANGED <<graphClient, reply>>

\* a saveAccessToken call arrives: the token is assigned and written, then
\* createGraphClient runs; when the write throws the handler's catch throws
SaveAccessToken_Call ==
    /\ csite = "onenote-mcp" /\ cpc = "serve"
    /\ \E c \in Calls, t \in SaveArgs :
        /\ calls[c].pc = "idle"
        /\ accessToken' = t
        /\ \/ /\ tokenFile' = writeToken(t)
              /\ CreateGraphClient(c, "saveAccessToken")
              /\ saved' = IF Truthy(t) THEN <<t>> ELSE saved
           \/ /\ Throws(c, "write")
              /\ UNCHANGED <<tokenFile, graphClient, outstanding, saved>>
    /\ UNCHANGED <<cpc, bearer>>
    /\ ProcessKeep

\* an authenticate call arrives: createGraphClient runs
Authenticate_Call ==
    /\ csite = "onenote-mcp" /\ cpc = "serve"
    /\ \E c \in Calls :
        /\ calls[c].pc = "idle"
        /\ accessToken' = accessToken
        /\ CreateGraphClient(c, "authenticate")
    /\ UNCHANGED <<tokenFile, cpc, bearer, saved>>
    /\ ProcessKeep

\* createGraphClient from the settlement of credential.getToken on: the
\* token is assigned and written and the client made, or the exchange is
\* rejected, or the write throws; every throw leaves through the catch
CreateGraphClient_Exchanged ==
    /\ \E c \in Calls :
        /\ calls[c].pc = "exchange"
        /\ outstanding' = Settled(c)
        /\ \/ \E d \in ExchangeTokens :
                /\ accessToken' = JsString(d)
                /\ \/ /\ tokenFile' = writeToken(accessToken')
                      /\ graphClient' = TRUE
                      /\ Returns(c)
                      /\ saved' = <<accessToken'>>
                   \/ /\ Throws(c, "write")
                      /\ UNCHANGED <<tokenFile, graphClient, saved>>
           \/ /\ Throws(c, "Authentication failed")
              /\ UNCHANGED <<tokenFile, accessToken, graphClient, saved>>
    /\ UNCHANGED <<cpc, bearer>>
    /\ ProcessKeep

-----------------------------------------------------------------------------
(* Specifications *)

InitFilter == FilterInit /\ PagingIdle /\ BulkIdle /\ CredIdle /\ McpIdle
NextFilter == ApplyFilter
SpecFilter == InitFilter /\ [][NextFilter]_vars

InitPaging == FilterIdle /\ PagingInit /\ BulkIdle /\ CredIdle /\ McpIdle
NextPaging ==
    \/ McpListPages_NextLink \/ McpListPages_Sections
    \/ McpListPages_First \/ McpListPages_Loop
    \/ CliListPages_NextLink \/ CliListPages_Section
    \/ CliListPages_First \/ CliListPages_Loop
    \/ McpSearchPages_First \/ McpSearchPages_Loop
    \/ CliSearchPages_First \/ CliSearchPages_Loop
SpecPaging == InitPaging /\ [][NextPaging]_vars

\* every awaited request settles and the continuation of its await is run
InitLoop == FilterIdle /\ LoopInit /\ BulkIdle /\ CredIdle /\ McpIdle
SpecLoop == InitLoop /\ [][NextPaging]_vars /\ WF_vars(NextPaging)

InitManual == FilterIdle /\ ManualInit /\ BulkIdle /\ CredIdle /\ McpIdle
NextManual ==
    \/ McpListPages_NextLink \/ McpListPages_Sections
    \/ McpListPages_First \/ McpListPages_Loop
    \/ CliListPages_NextLink \/ CliListPages_Section
    \/ CliListPages_First \/ CliListPages_Loop
    \/ Resume
SpecManual == InitManual /\ [][NextManual]_vars

InitBulk == FilterIdle /\ PagingIdle /\ BulkInit /\ CredIdle /\ McpIdle
NextBulk ==
    \/ Main_Filter \/ DownloadPage_Call \/ DownloadPage_Metadata
    \/ DownloadPage_Content \/ DownloadPage_Body \/ Main_Result
    \/ Main_WriteFailedLog
SpecBulk == InitBulk /\ [][NextBulk]_vars

InitLong == FilterIdle /\ PagingIdle /\ LongInit /\ CredIdle /\ McpIdle
SpecLong == InitLong /\ [][NextBulk]_vars

InitCred == FilterIdle /\ PagingIdle /\ BulkIdle /\ CredInit /\ McpIdle
NextCred ==
    \/ ListPages_Load \/ ListSections_Load \/ GetPageContent_Load
    \/ GetPage_Load \/ SearchPages_Load \/ DownloadAll_Load
    \/ ListSections_Notebooks \/ ListSections_Sections
    \/ GetPage_Metadata \/ GetPage_Content
    \/ ListPages_Pages \/ SearchPages_Pages
SpecCred == InitCred /\ [][NextCred]_vars

InitMcp == FilterIdle /\ PagingIdle /\ BulkIdle /\ McpInit
NextMcp ==
    \/ Server_Startup \/ Tool_Call \/ ListNotebooks_Response
    \/ GetPageTool_Metadata \/ GetPageTool_Content \/ GetPageTool_Timeout
    \/ GetPageTool_Body \/ SearchPagesTool_Pages
    \/ SaveAccessToken_Call \/ Authenticate_Call \/ CreateGraphClient_Exchanged
SpecMcp == InitMcp /\ [][NextMcp]_vars

-----------------------------------------------------------------------------
(* Inclusion Filter: properties *)

\* a and b are the same character up to letter case
SameLetter(a, b) ==
    \/ a = b
    \/ \E i \in 1..Len(Upper) : {a, b} = {Upper[i], Lower[i]}

\* title contains kw as a substring, compared case-insensitively
ContainsIgnoringCase(title, kw) ==
    \E i \in 1..(Len(title) - Len(kw) + 1) :
        \A j \in 1..Len(kw) : SameLetter(title[i + j - 1], kw[j])

\* the title rule applies to the record
TitleRuleMatches(page) ==
    /\ page.title # NoTitle
    /\ \E kw \in Keywords : ContainsIgnoringCase(page.title, kw)

IsTitleReason(r) == r.skip /\ r.reason.text = "Title contains excluded keyword"

\* C7: every predicate of the Inclusion Filter excludes a record whose title
\* contains "private" or "(old)" in any letter case, whatever its date, and
\* the title rule excludes no record whose title is empty or missing.
C7_TitleRule ==
    fres # <<>> =>
        LET page == fpage[1]
            r    == fres[1] IN
        /\ TitleRuleMatches(page) =>
               r.mcp.skip /\ IsTitleReason(r.mcp) /\ r.cli /\ r.byTitle
        /\ page.title \in {NoTitle, <<>>} =>
               ~ r.byTitle /\ ~ IsTitleReason(r.mcp)

C7_Witness ==
    /\ fres # <<>>
    /\ fpage[1].title = <<"P","R","I","V","A","T","E">> \o <<"N","o","t","e","s">>
    /\ fpage[1].lastModifiedDateTime = [y |-> 2022, m |-> 6, d |-> 1, ms |-> 0]
    /\ fres[1].mcp.skip /\ fres[1].cli /\ fres[1].byTitle

\* C8: a title-keyword exclusion comes with a reason that names the keyword
\* that matched, next to the original title.
C8_ReasonCitesKeyword ==
    (fres # <<>> /\ TitleRuleMatches(fpage[1])) =>
        /\ fres[1].mcp.skip
        /\ \E kw \in Keywords :
              /\ ContainsIgnoringCase(fpage[1].title, kw)
              /\ \E i \in 1..Len(fres[1].mcp.reason.args) : fres[1].mcp.reason.args[i] = kw

\* a timestamp strictly earlier than 2022-01-01T00:00:00.000Z
BeforeCutoff(ts) == ts.y < 2022

\* C9: a record that passes the title rule is excluded by the date rule
\* exactly when it carries a timestamp strictly earlier than 2022-01-01; a
\* record without a timestamp is never excluded by it.
C9_DateRule ==
    (fres # <<>> /\ ~ TitleRuleMatches(fpage[1])) =>
        LET page == fpage[1]
            r    == fres[1]
            old  == page.lastModifiedDateTime # NoDate
                    /\ BeforeCutoff(page.lastModifiedDateTime) IN
        /\ r.mcp.skip = old
        /\ r.cli = old
        /\ r.byDate = old

C9_Witness ==
    /\ fres # <<>>
    /\ ~ TitleRuleMatches(fpage[1])
    /\ fpage[1].lastModifiedDateTime = [y |-> 2021, m |-> 12, d |-> 31, ms |-> 86399999]
    /\ fres[1].mcp.skip /\ fres[1].cli /\ fres[1].byDate

-----------------------------------------------------------------------------
(* Listings and searches: properties *)

RECURSIVE ConcatPages(_, _, _)
\* c[a] ++ c[a+1] ++ ... ++ c[b]
ConcatPages(c, a, b) == IF a > b THEN <<>> ELSE c[a] \o ConcatPages(c, a + 1, b)

RECURSIVE SumLens(_, _, _)
SumLens(c, a, b) == IF a > b THEN 0 ELSE Len(c[a]) + SumLens(c, a + 1, b)

IsListing == psite \in {"mcpListPages", "cliListPages"}
IsSearch == psite \in {"mcpSearchPages", "cliSearchPages"}

\* the page the operation starts at
StartPage == IF pparams.nextLink # NoLink THEN pparams.nextLink ELSE 1

NumPagesRequests == Cardinality({ i \in 1..Len(requests) : requests[i].kind = "pages" })

HasTerm == Len(trim(pparams.searchTerm)) > 0

\* the operation follows the continuation links from a fresh collection
\* (the CLI follows them from a supplied link as well)
FollowsAll ==
    \/ IsSearch
    \/ psite = "cliListPages" /\ pparams.fetchAll
    \/ psite = "mcpListPages" /\ pparams.fetchAll /\ pparams.nextLink = NoLink

\* C1: when every page of the chain is returned, a fetchAll listing and a
\* search return the pages' records concatenated in server order, as many
\* as the pages hold together, repeats included (a search with a search term
\* returns the records of that sequence whose title contains the term).
C1_FetchAllConcatenation ==
    (ppc = "done" /\ pout.status = "returned" /\ FollowsAll /\ received # <<>>) =>
        LET all == ConcatPages(chain, StartPage, Len(chain)) IN
        /\ pfailed = 0 =>
              /\ allValues = all
              /\ Len(allValues) = SumLens(chain, StartPage, Len(chain))
              /\ IF HasTerm
                 THEN pout.value = SelectSeq(all, LAMBDA r :
                                       ContainsIgnoringCase(r.title, trim(pparams.searchTerm)))
                 ELSE pout.value = all

C1_Witness ==
    /\ ppc = "done" /\ pout.status = "returned" /\ psite = "mcpListPages"
    /\ pparams.fetchAll /\ pparams.nextLink = NoLink /\ pfailed = 0
    /\ Len(chain) = 3
    /\ chain[1] # <<>> /\ chain[2] = chain[1] /\ chain[3] # <<>> /\ chain[3] # chain[1]
    /\ pout.value = chain[1] \o chain[2] \o chain[3]

\* C2: when the fetch of a page after the first fails, the operation still
\* returns, and what it returns are the records accumulated so far.
C2_PartialResults ==
    (ppc = "done" /\ pfailed > 0 /\ received # <<>>) =>
        /\ pout.status = "returned"
        /\ ~ HasTerm => pout.value = allValues

\* C10: with fetchAll false a listing issues at most one request to the
\* pages collection and, once that request is answered, returns that page's
\* records with the server's continuation link, or with none when the
\* server gave none.
C10_SinglePage ==
    (IsListing /\ ~ pparams.fetchAll) =>
        /\ NumPagesRequests <= 1
        /\ (ppc = "done" /\ pout.status = "returned" /\ received # <<>>) =>
              /\ NumPagesRequests = 1
              /\ received = <<StartPage>>
              /\ pout.value = chain[StartPage]
              /\ pout.nextLink = IF StartPage < Len(chain) THEN StartPage + 1 ELSE NoLink
        /\ (ppc = "done" /\ pout.status = "returned" /\ received = <<>>) =>
              pout.value = <<>> /\ pout.nextLink = NoLink

C10_Witness ==
    /\ ppc = "done" /\ pout.status = "returned" /\ psite = "cliListPages"
    /\ ~ pparams.fetchAll /\ pparams.nextLink = 2 /\ Len(chain) = 3
    /\ NumPagesRequests = 1 /\ pout.value = chain[2] /\ chain[2] # <<>>
    /\ pout.nextLink = 3

\* C24: a listing started at a previously returned continuation link with
\* fetchAll true follows every further link and returns all the remaining
\* pages concatenated, in the MCP listPages tool as in list-pages.js
C24_NextLinkFetchAll ==
    (IsListing /\ pparams.nextLink # NoLink /\ pparams.fetchAll
        /\ ppc = "done" /\ pout.status = "returned" /\ pfailed = 0) =>
        /\ pout.value = ConcatPages(chain, pparams.nextLink, Len(chain))
        /\ received = [k \in 1..(Len(chain) - pparams.nextLink + 1) |->
                          pparams.nextLink + k - 1]

\* every record of the collection, in server order
AllRecords == ConcatPages(chain, 1, Len(chain))

\* a listing has returned and leaves nothing to resume
Exhausted == ppc = "done" /\ pout.status = "returned" /\ pout.nextLink = NoLink

\* C25: from the start of one collection, the calls with fetchAll false,
\* each resumed at the link the one before returned until none is returned,
\* yield together, in call order, the record sequence one fetchAll call
\* returns: every record once per occurrence at the server
C25_ManualEqualsFetchAll ==
    (Exhausted /\ pfailed = 0 /\ received # <<>>) =>
        /\ pparams.fetchAll => pout.value = AllRecords
        /\ ~ pparams.fetchAll => collected \o pout.value = AllRecords

\* three calls by hand over a chain of three pages with a repeated record
C25_Witness ==
    /\ Exhausted /\ ~ pparams.fetchAll /\ pfailed = 0 /\ Len(chain) = 3
    /\ received = <<1, 2, 3>> /\ collected = chain[1] \o chain[2]
    /\ chain[1] # <<>> /\ chain[2] = chain[1] /\ chain[3] # <<>>
    /\ collected \o pout.value = AllRecords

\* the pages from the one first requested to page k, in order
PagesThrough(k) == [j \in 1..(k - StartPage + 1) |-> StartPage + j - 1]

\* the requests of a fetchAll loop so far: each link once, in the order returned
InOrder ==
    /\ Len(received) <= Len(chain) - StartPage + 1
    /\ received = PagesThrough(StartPage + Len(received) - 1)

\* C29: over a finite chain of n pages, each linked to the next and the last
\* without a link, every fetchAll loop ends after exactly n requests to the
\* collection, each continuation link requested once and in the order
\* returned, and none after the response without a link
C29_LoopTerminates ==
    /\ []((FollowsAll /\ pfailed = 0) =>
            /\ InOrder
            /\ (ppc = "done" /\ received # <<>>) =>
                  /\ received = PagesThrough(Len(chain))
                  /\ NumPagesRequests = Len(chain) - StartPage + 1)
    /\ <>(ppc = "done")

\* a search has ended after three requests over a chain of three pages
C29_Witness ==
    /\ IsSearch /\ ppc = "done" /\ pfailed = 0 /\ Len(chain) = 3
    /\ received = <<1, 2, 3>> /\ NumPagesRequests = 3

-----------------------------------------------------------------------------
(* Bulk export driver: properties *)

\* the date rule excludes the record p
DateRuleMatches(p) ==
    p.lastModifiedDateTime # NoDate /\ BeforeCutoff(p.lastModifiedDateTime)

\* the Inclusion Filter excludes the record p
Excluded(p) == TitleRuleMatches(p) \/ DateRuleMatches(p)

\* C3: no content request is issued and no file is written for an entry
\* whose fetched metadata the Inclusion Filter excludes, by title keyword or
\* by modification date, and a content request follows a metadata request.
C3_NoContentForExcluded ==
    (bpc = "content" \/ (bpc = "result" /\ result = Downloaded)) =>
        /\ nMeta >= 1
        /\ fetched # <<>>
        /\ ~ Excluded(fetched[1])

\* entries k-9 .. k all ended failed
FailureRunEndsAt(k) ==
    /\ k >= 10 /\ k <= Len(outcomes)
    /\ \A j \in (k - 9)..k : outcomes[j] = "failed"

\* C4: once ten consecutive entries have failed, the driver attempts no
\* further entry: the tenth failure is the last outcome and the driver is
\* past its download loop, issuing no request.
C4_BreakerStops ==
    \A k \in 1..Len(outcomes) :
        FailureRunEndsAt(k) => Len(outcomes) = k /\ bpc \in {"log", "done", "fatal"}

C4_Witness ==
    /\ bpc = "done" /\ Len(pagesToDownload) = 12 /\ Len(outcomes) = 11
    /\ outcomes[1] = "downloaded" /\ FailureRunEndsAt(11)

\* C5: at most two content requests are issued for an entry; an error of the
\* first attempt starts exactly one further attempt and an error of the
\* second ends the entry as failed.
C5_RetryOnce ==
    /\ [](nContent <= 2 /\ retryCount <= 1)
    /\ [][ (bpc \in {"content", "body"} /\ bpc' \notin {"content", "body"}
              /\ ~ (bpc' = "result" /\ result'.success)) =>
              IF retryCount = 0
              THEN bpc' = "call" /\ retryCount' = 1
              ELSE bpc' = "result" /\ ~ result'.success ]_vars

C5_Witness ==
    /\ bpc = "result" /\ ~ result.success /\ result.error = "NetworkError"
    /\ retryCount = 1 /\ nContent = 2 /\ nMeta = 2

\* the name of the output file of the current entry, given its metadata
ExpectedName(p) ==
    FileName(pagesToDownload[cur].title, formatDate(p.lastModifiedDateTime))

\* the metadata request of the current attempt was answered in this step
MetaAnswered ==
    /\ bpc = "meta"
    /\ bpc' = "content" \/ (bpc' = "result" /\ result'.success)

\* C6 as stated: an entry skipped because its output file exists has had no
\* metadata request and no content request.
C6_NoRequestForExisting ==
    (bpc = "result" /\ result = Skipped("already exists")) =>
        nMeta = 0 /\ nContent = 0

\* C6, amended: when the metadata of an entry arrives and the directory holds
\* the file name expected for it, the attempt ends skipped, issues no content
\* request and writes nothing; the metadata request has been issued.
C6_SkipExisting ==
    [][ (MetaAnswered /\ ~ DateRuleMatches(fetched'[1])
           /\ ExpectedName(fetched'[1]) \in files) =>
          /\ bpc' = "result" /\ result'.success /\ result'.skipped
          /\ nContent' = nContent /\ files' = files /\ nMeta >= 1 ]_vars

C6_Witness ==
    /\ bpc = "result" /\ result = Skipped("already exists")
    /\ cur = 1 /\ pagesToDownload[1].title = tN /\ ~ fastMode
    /\ fetched = << [title |-> tN, lastModifiedDateTime |-> dNew] >>
    /\ files = {FileName(tN, formatDate(dNew))}
    /\ nMeta = 1 /\ nContent = 0

\* the manifest without the entries whose title holds an excluded keyword
Wanted ==
    SelectSeq(manifest, LAMBDA p : ~ \E kw \in Keywords : ContainsIgnoringCase(p.title, kw))

TenFailuresInARow == \E k \in 1..Len(outcomes) : FailureRunEndsAt(k)

\* C13: the entries are attempted in manifest order (those the title filter
\* drops are counted as skipped by title), each attempted entry has exactly
\* one outcome once it is over, and a run that has not met ten consecutive
\* failures ends only when every entry has been attempted.
C13_FailureDoesNotStop ==
    /\ Len(attempted) <= Len(Wanted)
    /\ attempted = SubSeq(Wanted, 1, Len(attempted))
    /\ Len(outcomes) <= Len(attempted) /\ Len(attempted) <= Len(outcomes) + 1
    /\ \A k \in 1..Len(outcomes) : outcomes[k] \in {"downloaded", "skipped", "failed"}
    /\ bpc \in {"log", "done", "fatal"} =>
          /\ Len(outcomes) = Len(attempted)
          /\ Len(outcomes) + skippedByTitle = Len(manifest)
          /\ TenFailuresInARow \/ attempted = Wanted

C13_Witness ==
    /\ bpc = "done" /\ Len(manifest) = 3
    /\ outcomes = <<"downloaded", "failed", "downloaded">>
    /\ Len(failedPages) = 1 /\ failedPages[1].pageId = manifest[2].pageId
    /\ failedPages[1].error = "NetworkError"

\* C14: for an entry of the manifest whose title holds "private" or "(old)"
\* in any case, downloadPage is not called, no request is issued and no file
\* is written.
C14_TitlePreFilter ==
    \A k \in 1..Len(manifest) :
        (\E kw \in Keywords : ContainsIgnoringCase(manifest[k].title, kw)) =>
            /\ manifest[k] \notin asked
            /\ \A j \in 1..Len(attempted) : attempted[j] # manifest[k]
            /\ \A j \in 1..Len(written) : written[j].entry # manifest[k]

C14_Witness ==
    /\ bpc = "done" /\ Len(manifest) = 3 /\ manifest[1].title = tPrivate
    /\ skippedByTitle = 1 /\ Len(outcomes) = 2 /\ Len(written) = 2
    /\ manifest[1] \notin asked /\ manifest[2] \in asked

\* stem is the title with the characters a file name may not hold replaced
StemOf(stem, title) ==
    /\ Len(stem) = Len(title)
    /\ \A k \in 1..Len(title) :
          stem[k] = IF title[k] \in {"<", ">", ":", "\"", "/", "\\", "|", "?", "*"}
                    THEN "_" ELSE title[k]

\* the directory holds a file of that title written within the 30-day window
RecentFileFor(title) == \E file \in fresh : file \in files /\ StemOf(file.stem, title)

\* C15: when downloadPage starts in fast mode and the directory holds a file
\* of the entry's title that is newer than the 30-day window, it returns
\* skipped and issues no request; otherwise it issues the metadata request.
C15_FastMode ==
    [][ bpc = "call" =>
          IF fastMode /\ RecentFileFor(pagesToDownload[cur].title)
          THEN /\ bpc' = "result" /\ result'.success /\ result'.skipped
               /\ nMeta' = nMeta /\ nContent' = nContent
               /\ asked' = asked /\ inflight' = inflight
          ELSE /\ bpc' = "meta" /\ nMeta' = nMeta + 1
               /\ pagesToDownload[cur] \in asked' ]_vars

\* the step in which downloadPage catches the abort of the timer
TimeoutCaught ==
    /\ bpc = "content"
    /\ Len(caught') = Len(caught) + 1
    /\ caught'[Len(caught')].error = "Timeout"

\* C17: the timer's abort settles the one request in flight and nothing
\* else; the attempt it ends is retried when it was the first and makes the
\* entry failed when it was the second; after an entry failed by a timeout
\* the next entry is started unless the manifest is over or the failure was
\* the tenth in a row.
C17_TimeoutIsAFailedStep ==
    /\ [][ TimeoutCaught =>
             /\ inflight = 1 /\ inflight' = 0
             /\ UNCHANGED <<files, written, outcomes, attempted, cur, pagesToDownload,
                            failedPages, consecutiveFailures>>
             /\ IF retryCount = 0
                THEN bpc' = "call" /\ retryCount' = 1
                ELSE bpc' = "result" /\ result' = FailedWith("Timeout") ]_vars
    /\ [][ (bpc = "result" /\ result = FailedWith("Timeout")) =>
             /\ outcomes' = Append(outcomes, "failed")
             /\ IF cur < Len(pagesToDownload) /\ consecutiveFailures + 1 < 10
                THEN bpc' = "call" /\ cur' = cur + 1 /\ retryCount' = 0
                ELSE bpc' = "log" ]_vars

C17_Witness ==
    /\ bpc = "done" /\ outcomes = <<"failed", "downloaded">>
    /\ failedPages[1].error = "Timeout" /\ Len(attempted) = 2 /\ Len(written) = 1

\* C18: after downloadPage has caught a rejection of the credential for an
\* entry, no further request is issued for that entry.
C18_AuthRejectedNotRetried ==
    \A k \in 1..Len(caught) :
        caught[k].error = "AuthRejected" => nMeta + nContent = caught[k].requests

\* C19: once the write of an entry's content has thrown, the run is over
\* with a fatal error: downloadPage is not called again and the entry gets
\* no outcome.
C19_FilesystemErrorFatal ==
    \A k \in 1..Len(caught) :
        caught[k].error = "FilesystemError" => bpc = "fatal"

\* C21: the bulk driver never rewrites an existing output file: no file was
\* at the target path right before any of its writes, and no path is
\* written twice in a run, also when two entries map to one file name
C21_NeverRewrites ==
    /\ \A k \in 1..Len(written) : ~ written[k].existed
    /\ \A j, k \in 1..Len(written) : j # k => written[j].file # written[k].file

\* two entries of one title and date: the first is written, the second is
\* skipped because the file is there
C21_Witness ==
    /\ bpc = "done" /\ Len(written) = 1 /\ Len(outcomes) >= 2
    /\ \E j, k \in 1..Len(outcomes) :
          /\ j < k /\ outcomes[j] = "downloaded" /\ outcomes[k] = "skipped"
          /\ pagesToDownload[j].title = pagesToDownload[k].title
          /\ written[1].entry = pagesToDownload[j]

\* the positions of the failed outcomes of the run, in order
FailedAt ==
    SelectSeq([k \in 1..Len(outcomes) |-> k], LAMBDA k : outcomes[k] = "failed")

\* C23: when a run ends with at least one failed record, at the end of the
\* manifest or by the circuit breaker, the failure log is written and holds
\* one line per failed record of the run, in the order of the failures
C23_FailureLog ==
    (bpc = "done" /\ Len(FailedAt) > 0) =>
        /\ Len(failedLog) = Len(FailedAt)
        /\ \A n \in 1..Len(FailedAt) :
              /\ failedLog[n][1] = attempted[FailedAt[n]].title
              /\ failedLog[n][2] = attempted[FailedAt[n]].pageId

\* the breaker ended the run before the end of the manifest, after an
\* entry that was not a failure: the log holds the ten failures
C23_Witness ==
    /\ bpc = "done" /\ Len(outcomes) < Len(pagesToDownload)
    /\ Len(FailedAt) = MAX_CONSECUTIVE_FAILURES /\ Len(failedLog) = MAX_CONSECUTIVE_FAILURES
    /\ \E k \in 1..Len(outcomes) : outcomes[k] # "failed"

\* the length of the run of failed outcomes that ends at position k
RECURSIVE FailedRun(_)
FailedRun(k) ==
    IF k = 0 \/ outcomes[k] # "failed" THEN 0 ELSE 1 + FailedRun(k - 1)

\* C28: in every state of the loop the consecutive-failure counter is the
\* length of the run of failed outcomes ending at the last processed
\* entry: a downloaded or skipped outcome resets it to 0, it never exceeds
\* 10 and never exceeds the number of failed entries
C28_CounterInvariant ==
    /\ consecutiveFailures = FailedRun(Len(outcomes))
    /\ consecutiveFailures <= MAX_CONSECUTIVE_FAILURES
    /\ consecutiveFailures <= totalFailed
    /\ totalFailed = Len(FailedAt)

\* a skipped or downloaded entry after failures has reset the counter
C28_Witness ==
    /\ Len(outcomes) >= 3 /\ consecutiveFailures = 0 /\ totalFailed >= 2
    /\ outcomes[Len(outcomes)] # "failed" /\ outcomes[Len(outcomes) - 1] = "failed"

\* C26: the content fetch is under the timeout for its whole duration:
\* from the content request until the whole body has been received a timer
\* is armed, whose expiry aborts the fetch
C26_TimerCoversFetch ==
    /\ bpc \in {"content", "body"} => timer
    /\ \A c \in DOMAIN calls : calls[c].pc \in {"content", "body"} => calls[c].timer

-----------------------------------------------------------------------------
(* Credentials and entry points: properties *)

AllWhiteSpace(s) == \A k \in 1..Len(s) : s[k] \in {" ", "\n", "\t", "\r"}

\* s is y between white space
Padded(s, y) ==
    \E a \in 0..Len(s), b \in 0..Len(s) :
        /\ a + Len(y) + b = Len(s)
        /\ AllWhiteSpace(SubSeq(s, 1, a))
        /\ SubSeq(s, a + 1, a + Len(y)) = y
        /\ AllWhiteSpace(SubSeq(s, a + Len(y) + 1, Len(s)))

\* raw tokens: no JSON text starts with a letter of these
BareTokens == { <<"e","y","J">>, <<"e"," ","J">> }

\* C11: once a loader has read a file holding {"token":"X"} the token is X,
\* once it has read a file holding a bare string Y between white space the
\* token is Y without that white space, and neither file is reported missing
C11_LoaderDecodes ==
    (cpc # "load" /\ tokenFile # <<>>) =>
        /\ tokenFile[1] = JsonText(JsonMember(kToken, tokX))
              => (accessToken = JsString(tokX) /\ ~ cout.missing)
        /\ \A y \in BareTokens :
              Padded(tokenFile[1], y) => (accessToken = JsString(y) /\ ~ cout.missing)

\* the file yields no token: only white space, or an object without a
\* token (or with an empty one), between white space
YieldsNoToken(s) ==
    \/ AllWhiteSpace(s)
    \/ Padded(s, <<"{", "}">>)
    \/ Padded(s, JsonText(JsonMember(kToken, <<>>)))

\* C12: once a loader has run without a credential file, or on a file that
\* yields no token, the missing credential is reported and no request was issued
C12_MissingReported ==
    (cpc # "load" /\ (tokenFile = <<>> \/ YieldsNoToken(tokenFile[1])))
        => (cout.missing /\ creqs = <<>>)

\* C20: a script other than the bulk driver that ended on a missing
\* credential or a failed request wrote to the console and exited nonzero
C20_ErrorsExitNonzero ==
    (csite \in CliSites /\ cpc = "exit" /\ (cout.missing \/ cout.failed))
        => (cout.logged /\ cout.exit # 0)

-----------------------------------------------------------------------------
(* MCP server: properties *)

\* C16: at every moment at most one network request is outstanding in a
\* process: among all tool calls of the MCP server, also when a second call
\* arrives while a first awaits its response, and in the bulk driver, also
\* when the content timeout fires and the retry starts
C16_OneOutstanding == Cardinality(outstanding) <= 1 /\ inflight <= 1


\* the token the credential file yields when it is loaded, if any
Stored == IF tokenFile = <<>> THEN JsUndefined ELSE parsedTokenOrRaw(tokenFile[1])

\* a request to Microsoft Graph is issued in the step
Issued ==
    \E r \in outstanding' \ outstanding : r.target # "deviceCode"

\* a request to Microsoft Graph is settled in the step
Answered ==
    \E r \in outstanding \ outstanding' : r.target # "deviceCode"

C27_EnvironmentToken ==
    [][ (cpc = "serve" /\ envToken # <<>> /\ ~ Truthy(Stored) /\ saved = <<>>) =>
            /\ ~ (reply' = "Access token not found" /\ reply # reply')
            /\ Issued => bearer' = <<JsString(envToken[1])>>
      ]_vars

\* C30: in the MCP server, after saveAccessToken(t) has succeeded every
\* request a later tool call issues, through the Graph client or the direct
\* content fetch, carries t (the token of the last save or exchange that
\* succeeded) and none loaded or saved before, whether or not a client was
\* made before the save and for any interleaving of saves and tool calls
C30_BearerAfterSave ==
    [][ (Issued /\ saved' # <<>>) => bearer' = saved' ]_vars

====
